---- MODULE Spec2Model ----
(***************************************************************************)
(* Local data cache and lookup engine of pokemon_randbats.                 *)
(*                                                                         *)
(*   RandBatsData (core.py)        the DataCache facade: load precedence,  *)
(*                                 lookup, listing, update and reload      *)
(*   DataUpdater (updater.py)      the sync engine behind update(); its    *)
(*                                 source is not part of the tree, it is   *)
(*                                 modelled from spec.md section 4.4       *)
(*   download_randbats             the sync procedure of                   *)
(*     (scripts/update_all_data.py)  the data update script                *)
(*                                                                         *)
(* Strings are sequences of one-character strings.  A JSON document is a   *)
(* record [t, kv]: t is the JSON type, kv the ordered key/value pairs of   *)
(* an object (a Python dict keeps insertion order).  A file is a record    *)
(* [kind, val]: absent, corrupt (present, does not parse) or json.         *)
(***************************************************************************)
EXTENDS Integers, Sequences, FiniteSets, TLC

VARIABLES
    cache,            \* <cache_dir>/<format>.json, per format token
    bundled,          \* <package>/data/<format>.json, read-only snapshot
    last_update,      \* <cache_dir>/last_update
    attempted,        \* history: the clock at the last call of update_formats
                      \* that returned
    now,              \* wall clock, in hours
    phase,            \* "none" before the constructor has run, then "ready"
    formats,          \* self.formats
    _data,            \* self._data: format token -> loaded JSON document
    _loaded_formats,  \* self._loaded_formats
    data_dir,         \* localsets/randbattle_data/<format>.json (update script)
    metadata_dir,     \* localsets/metadata/<format>_metadata.json (update script)
    ev,               \* the last operation: its arguments, result and pre-state
    pc,               \* per thread: where it is in a call, and its local variables
    _global_data,     \* formats._global_data: 0 for None, else the instance
    constructed,      \* history: how many times RandBatsData() has been called
    installed         \* history: per format, the datasets self._data has held

vars == <<cache, bundled, last_update, attempted, now, phase, formats, _data,
          _loaded_formats, data_dir, metadata_dir, ev, pc, _global_data,
          constructed, installed>>

threadVars == <<pc, _global_data, constructed, installed>>

scriptVars == <<data_dir, metadata_dir>>
instanceVars == <<phase, formats, _data, _loaded_formats>>

----------------------------------------------------------------------------
(* Characters and names *)

LowerAscii == <<"a", "c", "e", "h", "i", "k", "m", "p", "r", "u">>
UpperAscii == <<"A", "C", "E", "H", "I", "K", "M", "P", "R", "U">>
Digits == {"1", "2"}
\* characters for which str.isalnum() is False
Punct == {".", " ", "-"}
\* non-ASCII characters for which str.isalnum() is True: "E'" and "e'" are an
\* accented letter in upper and lower case, "S'" is the capital sigma, "s'"
\* the small sigma and "s;" the small final sigma
NonAsciiAlnum == {"e'", "E'", "S'", "s'", "s;"}

Range(s) == {s[i] : i \in DOMAIN s}

UpperSet == Range(UpperAscii)
AlnumSet == Range(LowerAscii) \cup UpperSet \cup Digits \cup NonAsciiAlnum
LowerOf ==
    [c \in UpperSet |-> LowerAscii[CHOOSE i \in DOMAIN UpperAscii : UpperAscii[i] = c]]

\* str.lower(), one character out of context
LowerChar(c) ==
    IF c \in UpperSet THEN LowerOf[c]
    ELSE IF c = "E'" THEN "e'"
    ELSE IF c = "S'" THEN "s'"
    ELSE c

\* str.isalnum(), one character
IsAlnum(c) == c \in AlnumSet

\* the characters str.lower() takes for cased letters and the ones it skips
\* when it looks for the cased letter next to a capital sigma
CasedSet == Range(LowerAscii) \cup UpperSet \cup NonAsciiAlnum
CaseIgnorable == {"."}

\* str.lower() writes the capital sigma at s[i] as a final sigma: a cased
\* letter stands before it and none after it, case-ignorable characters skipped
FinalSigma(s, i) ==
    /\ \E j \in 1..(i - 1) :
           s[j] \in CasedSet /\ \A k \in (j + 1)..(i - 1) : s[k] \in CaseIgnorable
    /\ ~ \E j \in (i + 1)..Len(s) :
           s[j] \in CasedSet /\ \A k \in (i + 1)..(j - 1) : s[k] \in CaseIgnorable

\* str.lower()
MapLower(s) ==
    [i \in 1..Len(s) |->
        IF s[i] = "S'" /\ FinalSigma(s, i) THEN "s;" ELSE LowerChar(s[i])]

\* RandBatsData._normalize_name: ''.join(c for c in name.lower() if c.isalnum())
_normalize_name(name) == SelectSeq(MapLower(name), IsAlnum)

----------------------------------------------------------------------------
(* JSON documents, records and files *)

Obj(kv) == [t |-> "object", kv |-> kv]
EmptyObj == Obj(<<>>)
\* valid JSON that is not an object
JsonList == [t |-> "list", kv |-> <<>>]

Absent == [kind |-> "absent", val |-> EmptyObj]
Corrupt == [kind |-> "corrupt", val |-> EmptyObj]
File(doc) == [kind |-> "json", val |-> doc]

\* keys of an object, in the object's own order
Keys(doc) == [i \in DOMAIN doc.kv |-> doc.kv[i][1]]
KeySet(doc) == {doc.kv[i][1] : i \in DOMAIN doc.kv}
HasKey(doc, k) == k \in KeySet(doc)
\* doc[k]
Lookup(doc, k) == doc.kv[CHOOSE i \in DOMAIN doc.kv : doc.kv[i][1] = k][2]

\* a creature record: a mapping from field name to value
Rec(level) == [f \in {"level"} |-> level]
\* rec["stats"] = s
WithStats(rec, s) ==
    [f \in DOMAIN rec \cup {"stats"} |-> IF f = "stats" THEN s ELSE rec[f]]

----------------------------------------------------------------------------
(* The format registry and the documents of the model *)

\* formats.py FORMATS, restricted to the formats the model keeps files for
FORMATS == <<"gen8randombattle", "gen9randombattle">>
\* a token outside the registry
UnknownFormat == "nonexistent_format"
Registry == Range(FORMATS)
FormatTokens == Registry \cup {UnknownFormat}
\* format_name=None
None == "None"
\* formats=None, the default of the argument
Omitted == <<None>>
\* not formats: None and the empty list are false
NoFormats(arg) == arg = Omitted \/ arg = <<>>

pikachu == <<"p", "i", "k", "a", "c", "h", "u">>
Pikachu == <<"P", "i", "k", "a", "c", "h", "u">>
PIKACHU_ == <<"P", "I", "K", "A", "C", "H", "U", " ">>
mrmime == <<"m", "r", "m", "i", "m", "e">>
Mr_Mime == <<"M", "r", ".", " ", "M", "i", "m", "e">>
mime == <<"m", "i", "m", "e">>

\* names a caller asks for
QueryNames == {PIKACHU_, mrmime, mime}

\* persisted datasets: canonical keys, a key that is not canonical, two keys
\* with the same canonical form
DocCanon == Obj(<< <<pikachu, Rec(50)>>, <<mrmime, Rec(55)>> >>)
DocRaw == Obj(<< <<Mr_Mime, Rec(55)>>, <<pikachu, Rec(50)>> >>)
DocCollide == Obj(<< <<Pikachu, Rec(70)>>, <<pikachu, Rec(50)>> >>)
DocBundled == Obj(<< <<pikachu, Rec(40)>> >>)

\* what the remote source serves
PrimaryA == Obj(<< <<pikachu, Rec(60)>>, <<mrmime, Rec(65)>> >>)
PrimaryB == Obj(<< <<mime, Rec(61)>> >>)
StatsA == Obj(<< <<pikachu, 1>>, <<mime, 2>> >>)
MetaA == Obj(<< <<"sha", 7>> >>)
\* a fetch that fails (an exception, or a status other than 200)
FetchFailed == [t |-> "failed", kv |-> <<>>]

----------------------------------------------------------------------------
(* RandBatsData: loading *)

\* LoadDoc with the bundled snapshot consulted before the cache file
LoadDoc_BundledFirst(c, b) ==
    IF b.kind # "absent"
    THEN IF b.kind = "corrupt" THEN EmptyObj ELSE b.val
    ELSE IF c.kind # "absent"
         THEN IF c.kind = "corrupt" THEN EmptyObj ELSE c.val
         ELSE EmptyObj

\* LoadDoc with an except branch that stores None instead of {}
LoadDoc_ExceptNone(c, b) ==
    IF c.kind # "absent"
    THEN IF c.kind = "corrupt" THEN [t |-> "null", kv |-> <<>>] ELSE c.val
    ELSE IF b.kind # "absent"
         THEN IF b.kind = "corrupt" THEN [t |-> "null", kv |-> <<>>] ELSE b.val
         ELSE EmptyObj

\* the document _load_format stores for a format whose cache file is c and
\* whose bundled file is b; json.load raising lands in the except branch
LoadDoc(c, b) ==
    IF c.kind # "absent"
    THEN IF c.kind = "corrupt" THEN EmptyObj ELSE c.val
    ELSE IF b.kind # "absent"
         THEN IF b.kind = "corrupt" THEN EmptyObj ELSE b.val
         ELSE EmptyObj

\* _load_format: self._data[format_name] = ...; self._loaded_formats.add(...)
\* _load_format that leaves a format without any file unloaded
_load_format_SkipMissing(D, f, C) ==
    IF C[f].kind = "absent" /\ bundled[f].kind = "absent" THEN D
    ELSE (f :> LoadDoc(C[f], bundled[f])) @@ D

_load_format(D, f, C) == (f :> LoadDoc(C[f], bundled[f])) @@ D

\* _load_data that starts again from an empty self._data
_load_data_Fresh(fs, D, C) == [f \in Range(fs) |-> LoadDoc(C[f], bundled[f])]

\* _load_data: for format_name in self.formats: if not loaded, _load_format
RECURSIVE _load_data(_, _, _)
_load_data(fs, D, C) ==
    IF fs = <<>> THEN D
    ELSE IF Head(fs) \in DOMAIN D
         THEN _load_data(Tail(fs), D, C)
         ELSE _load_data(Tail(fs), _load_format(D, Head(fs), C), C)

----------------------------------------------------------------------------
(* RandBatsData: lookup *)

RetRecord(r) == [kind |-> "record", rec |-> r]
RetNone == [kind |-> "none", rec |-> <<>>]
Raised == [kind |-> "raise", rec |-> <<>>]

\* the scan that keeps the last key whose normal form is n
FuzzyIndex_Last(doc, n) ==
    LET hits == {i \in DOMAIN doc.kv : _normalize_name(doc.kv[i][1]) = n}
    IN  IF hits = {} THEN 0 ELSE CHOOSE i \in hits : \A j \in hits : i >= j

\* the first key, in the dataset's order, whose normal form is n (0 if none)
FuzzyIndex(doc, n) ==
    LET hits == {i \in DOMAIN doc.kv : _normalize_name(doc.kv[i][1]) = n}
    IN  IF hits = {} THEN 0 ELSE CHOOSE i \in hits : \A j \in hits : i <= j

\* get_in_format with the scan over the keys tried before the exact key
get_in_format_ScanFirst(D, name, f) ==
    IF f \notin DOMAIN D THEN RetNone
    ELSE IF D[f].t # "object" THEN Raised
    ELSE LET n == _normalize_name(name)
             i == FuzzyIndex(D[f], n)
         IN  IF i # 0 THEN RetRecord(D[f].kv[i][2])
             ELSE RetNone

\* get_pokemon with the format given (lines 129-146); a loaded document that is
\* not a dict has no .keys() and does not index by name
get_in_format(D, name, f) ==
    IF f \notin DOMAIN D THEN RetNone
    ELSE IF D[f].t # "object" THEN Raised
    ELSE LET n == _normalize_name(name)
             i == FuzzyIndex(D[f], n)
         IN  IF HasKey(D[f], n) THEN RetRecord(Lookup(D[f], n))
             ELSE IF i # 0 THEN RetRecord(D[f].kv[i][2])
             ELSE RetNone

\* truth value of a get_pokemon result: None and the empty dict are false
Truthy(ret) == ret.kind = "record" /\ DOMAIN ret.rec # {}

recent_formats == <<"gen9randombattle", "gen8randombattle", "gen7randombattle">>

\* _detect_format; pick is next(iter(self._loaded_formats)), any member of the
\* set; "raise" when a lookup on the way raises
RECURSIVE detect_from(_, _, _, _)
detect_from(rs, D, name, fallback) ==
    IF rs = <<>> THEN fallback
    ELSE IF Head(rs) \in DOMAIN D /\ get_in_format(D, name, Head(rs)) = Raised
         THEN "raise"
    ELSE IF Head(rs) \in DOMAIN D /\ Truthy(get_in_format(D, name, Head(rs)))
         THEN Head(rs)
    ELSE detect_from(Tail(rs), D, name, fallback)

_detect_format(D, L, name, pick) ==
    detect_from(recent_formats, D, name,
                IF L = {} THEN "gen9randombattle" ELSE pick)

\* get_pokemon(pokemon_name, format_name)
get_pokemon(D, L, name, f, pick) ==
    IF f # None THEN get_in_format(D, name, f)
    ELSE IF _detect_format(D, L, name, pick) = "raise" THEN Raised
    ELSE get_in_format(D, name, _detect_format(D, L, name, pick))

\* list_pokemon(format_name)
list_pokemon(D, f) ==
    IF f \notin DOMAIN D THEN [kind |-> "list", keys |-> <<>>]
    ELSE IF D[f].t # "object" THEN [kind |-> "raise", keys |-> <<>>]
    ELSE [kind |-> "list", keys |-> Keys(D[f])]

\* get_formats(): list(self._loaded_formats), as a set: the order of a list
\* made from a set is not specified
get_formats(L) == L

\* sum(len(data) for data in D.values()) over the formats fs
RECURSIVE SumLen(_, _)
SumLen(D, fs) ==
    IF fs = {} THEN 0
    ELSE LET f == CHOOSE g \in fs : TRUE
         IN  Len(D[f].kv) + SumLen(D, fs \ {f})

\* get_cache_info with the total taken over the configured formats
get_cache_info_Configured(D, L, lu) ==
    [loaded_formats |-> L,
     total_pokemon |-> SumLen(D, DOMAIN D \cap Range(formats)),
     format_counts |-> [f \in DOMAIN D |-> Len(D[f].kv)]]
        @@ (IF lu.kind = "absent" THEN <<>> ELSE [c \in {"last_update"} |-> lu])

\* get_cache_info(); lu is the last_update file, whose text is reported as
\* it is when the file exists
get_cache_info(D, L, lu) ==
    [loaded_formats |-> L,
     total_pokemon |-> SumLen(D, DOMAIN D),
     format_counts |-> [f \in DOMAIN D |-> Len(D[f].kv)]]
        @@ (IF lu.kind = "absent" THEN <<>> ELSE [c \in {"last_update"} |-> lu])

----------------------------------------------------------------------------
(* The sync: statistics merge, DataUpdater.update_formats *)

\* set_data[poke]["stats"] = poke_stats
SetStats(set_data, poke, poke_stats) ==
    Obj([i \in DOMAIN set_data.kv |->
            IF set_data.kv[i][1] = poke
            THEN <<poke, WithStats(set_data.kv[i][2], poke_stats)>>
            ELSE set_data.kv[i]])

\* MergeItems without the test "if poke in set_data": a statistics entry for
\* a key the dataset lacks becomes a record of its own
RECURSIVE MergeItems_Orphans(_, _)
MergeItems_Orphans(set_data, items) ==
    IF items = <<>> THEN set_data
    ELSE MergeItems_Orphans(
             IF HasKey(set_data, Head(items)[1])
             THEN SetStats(set_data, Head(items)[1], Head(items)[2])
             ELSE Obj(Append(set_data.kv,
                             <<Head(items)[1], [f \in {"stats"} |-> Head(items)[2]]>>)),
             Tail(items))

\* for poke, poke_stats in stats_data.items(): if poke in set_data: ...
RECURSIVE MergeItems(_, _)
MergeItems(set_data, items) ==
    IF items = <<>> THEN set_data
    ELSE MergeItems(IF HasKey(set_data, Head(items)[1])
                    THEN SetStats(set_data, Head(items)[1], Head(items)[2])
                    ELSE set_data,
                    Tail(items))

\* the statistics step: a failed statistics fetch, or a statistics document
\* without .items(), leaves set_data as fetched
MergeStats(set_data, stats_data) ==
    IF stats_data.t # "object" THEN set_data
    ELSE MergeItems(set_data, stats_data.kv)

\* what the remote source answers for one format: the dataset, the statistics
\* and the provenance document; the last two are fetched only after the first
Answer(p, s, m) == [primary |-> p, stats |-> s, meta |-> m]
NoAnswer == Answer(FetchFailed, FetchFailed, FetchFailed)
Answers ==
    {NoAnswer} \cup {Answer(p, s, m) : p \in {PrimaryA, PrimaryB},
                                       s \in {FetchFailed, StatsA},
                                       m \in {FetchFailed, MetaA}}

\* the answers to update_formats over the formats fs: a token outside the
\* registry names no remote file; the provenance does not vary where it is
\* not kept
UpdaterAnswers == {a \in Answers : a.meta = FetchFailed /\ a.primary # PrimaryB}
UpdaterOutcomes(fs) ==
    {o \in [fs -> UpdaterAnswers] : \A f \in fs \ Registry : o[f] = NoAnswer}

\* a call of update_formats over fs: it returns after the answers o, or it
\* raises before it has fetched or written anything
UpdaterRuns(fs) ==
    {[o |-> o, raised |-> FALSE] : o \in UpdaterOutcomes(fs)}
    \cup {[o |-> o, raised |-> TRUE] :
              o \in {q \in UpdaterOutcomes(fs) : \A f \in fs : q[f] = NoAnswer}}

\* DataUpdater.update_formats, the formats it reports as updated
updated_formats(fs, o) == {f \in fs : o[f].primary # FetchFailed}

\* DataUpdater.update_formats, the cache directory it leaves
update_formats(C, fs, o) ==
    [f \in DOMAIN C |->
        IF f \in updated_formats(fs, o)
        THEN File(MergeStats(o[f].primary, o[f].stats))
        ELSE C[f]]

----------------------------------------------------------------------------
(* RandBatsData: update *)

UPDATE_INTERVAL == 24

Time(t) == [kind |-> "time", t |-> t]
NoTime == [kind |-> "absent", t |-> 0]
\* a last_update file datetime.fromisoformat rejects
BadTime == [kind |-> "garbage", t |-> 0]

\* reload that starts from an emptied self._data
reload_Emptied(D, updated, C) ==
    [f \in DOMAIN D |-> IF f \in updated THEN LoadDoc(C[f], bundled[f]) ELSE EmptyObj]

\* the reload loop of update: for format_name in updated_formats:
\*     if format_name in self._loaded_formats: self._load_format(format_name)
reload(D, updated, C) ==
    [f \in DOMAIN D |-> IF f \in updated THEN LoadDoc(C[f], bundled[f]) ELSE D[f]]

\* formats or list(self._loaded_formats)
formats_to_update(arg, D) == IF NoFormats(arg) THEN DOMAIN D ELSE Range(arg)

EvNone ==
    [op |-> "none", fmt |-> None, name |-> <<>>, ret |-> RetNone,
     keys |-> <<>>, arg |-> <<>>, auto |-> FALSE, synced |-> FALSE,
     doc |-> EmptyObj,
     req |-> {}, outcome |-> <<>>, updated |-> {},
     stamp |-> NoTime, out |-> <<>>, type |-> "", cut |-> <<>>,
     prior |-> <<>>, raised |-> FALSE]

\* update(formats) that writes last_update only when a format was updated
update_StampOnSuccess(D, fs, o, e) ==
    /\ cache' = update_formats(cache, fs, o)
    /\ IF e.raised
       THEN /\ _data' = D
            /\ UNCHANGED <<last_update, attempted>>
            /\ ev' = [e EXCEPT !.synced = TRUE, !.req = fs, !.outcome = o]
       ELSE /\ _data' = reload(D, updated_formats(fs, o), update_formats(cache, fs, o))
            /\ last_update' = IF updated_formats(fs, o) = {} THEN last_update ELSE Time(now)
            /\ attempted' = Time(now)
            /\ ev' = [e EXCEPT !.synced = TRUE, !.req = fs, !.outcome = o,
                               !.updated = updated_formats(fs, o)]

\* update(formats) that writes last_update in the except branch too
update_StampAlways(D, fs, o, e) ==
    /\ cache' = update_formats(cache, fs, o)
    /\ last_update' = Time(now)
    /\ IF e.raised
       THEN /\ _data' = D
            /\ UNCHANGED attempted
            /\ ev' = [e EXCEPT !.synced = TRUE, !.req = fs, !.outcome = o]
       ELSE /\ _data' = reload(D, updated_formats(fs, o), update_formats(cache, fs, o))
            /\ attempted' = Time(now)
            /\ ev' = [e EXCEPT !.synced = TRUE, !.req = fs, !.outcome = o,
                               !.updated = updated_formats(fs, o)]

\* update(formats) on the instance state D, with the remote answering o; when
\* update_formats raises (e.raised) the except branch of line 192 ends the
\* call: nothing is reloaded and no stamp is written
update(D, fs, o, e) ==
    /\ cache' = update_formats(cache, fs, o)
    /\ IF e.raised
       THEN /\ _data' = D
            /\ UNCHANGED <<last_update, attempted>>
            /\ ev' = [e EXCEPT !.synced = TRUE, !.req = fs, !.outcome = o]
       ELSE /\ _data' = reload(D, updated_formats(fs, o), update_formats(cache, fs, o))
            /\ last_update' = Time(now)
            /\ attempted' = Time(now)
            /\ ev' = [e EXCEPT !.synced = TRUE, !.req = fs, !.outcome = o,
                               !.updated = updated_formats(fs, o)]

\* _check_updates with "<=" for "<" at line 106
NeedsUpdate_Late ==
    \/ last_update.kind = "absent"
    \/ last_update.kind = "time" /\ ~(now - last_update.t <= UPDATE_INTERVAL)

\* _check_updates decides to call update_all
NeedsUpdate ==
    \/ last_update.kind = "absent"
    \/ last_update.kind = "time" /\ ~(now - last_update.t < UPDATE_INTERVAL)

----------------------------------------------------------------------------
(* The operations *)

\* the threads of the process
Threads == {1, 2}

\* a thread outside every call; the fields are the local variables of the
\* calls it can be in
Idle ==
    [at |-> "idle", op |-> "", name |-> <<>>, fmt |-> None,
     format_data |-> EmptyObj, fs |-> {}, pending |-> <<>>, data |-> 0]

\* one caller at a time: no thread is inside a call between two operations
NoThreads ==
    /\ pc = [t \in Threads |-> Idle]
    /\ _global_data = 0
    /\ constructed = 0
    /\ installed = <<>>

\* bounds of the model
\* the age in hours of the last_update file found at the start
StartAge == 24

\* the format lists a caller passes; the empty list is taken as the code takes
\* it, like an omitted argument
FormatArgs ==
    {<<>>, <<"gen9randombattle">>, <<"gen8randombattle", UnknownFormat>>}

CachePool == {Absent, Corrupt, File(JsonList), File(EmptyObj), File(DocRaw),
              File(DocCollide)}
BundledPool == {Absent, Corrupt, File(DocBundled)}

Init ==
    /\ NoThreads
    /\ cache \in [FormatTokens -> CachePool]
    /\ \A f \in FormatTokens \ {"gen9randombattle"} : cache[f] \in {Absent, File(DocCanon)}
    /\ cache[UnknownFormat] = Absent
    /\ bundled \in [FormatTokens -> BundledPool]
    /\ \A f \in FormatTokens \ {"gen9randombattle"} : bundled[f] = Absent
    /\ last_update \in {NoTime, BadTime, Time(0 - StartAge)}
    /\ attempted = NoTime
    /\ now = 0
    /\ phase = "none"
    /\ formats = <<>>
    /\ _data = <<>>
    /\ _loaded_formats = {}
    /\ data_dir = [f \in Registry |-> Absent]
    /\ metadata_dir = [f \in Registry |-> Absent]
    /\ ev = EvNone

\* the constructor that drops the tokens outside the registry
Construct_DropUnknown(arg, auto) ==
    LET fs == IF NoFormats(arg) THEN FORMATS ELSE SelectSeq(arg, LAMBDA f : f \in Registry)
        D == _load_data(fs, <<>>, cache)
        e == [EvNone EXCEPT !.op = "init", !.arg = arg, !.auto = auto,
                            !.stamp = IF auto THEN last_update ELSE NoTime]
    IN  /\ phase' = "ready"
        /\ formats' = fs
        /\ _loaded_formats' = DOMAIN D
        /\ IF auto /\ NeedsUpdate
           THEN \E r \in UpdaterRuns(Registry) :
                    update(D, Registry, r.o, [e EXCEPT !.raised = r.raised])
           ELSE /\ _data' = D
                /\ ev' = e
                /\ UNCHANGED <<cache, last_update, attempted>>
        /\ UNCHANGED <<bundled, threadVars, now, scriptVars>>

\* the constructor that checks for updates whatever auto_update is
Construct_AutoAlways(arg, auto) ==
    LET fs == IF NoFormats(arg) THEN FORMATS ELSE arg
        D == _load_data(fs, <<>>, cache)
        e == [EvNone EXCEPT !.op = "init", !.arg = arg, !.auto = auto,
                            !.stamp = IF auto THEN last_update ELSE NoTime]
    IN  /\ phase' = "ready"
        /\ formats' = fs
        /\ _loaded_formats' = DOMAIN D
        /\ IF NeedsUpdate
           THEN \E r \in UpdaterRuns(Registry) :
                    update(D, Registry, r.o, [e EXCEPT !.raised = r.raised])
           ELSE /\ _data' = D
                /\ ev' = e
                /\ UNCHANGED <<cache, last_update, attempted>>
        /\ UNCHANGED <<bundled, threadVars, now, scriptVars>>

\* RandBatsData.__init__(formats=arg, auto_update=auto): what it does to the
\* instance and to the cache directory
__init__(arg, auto) ==
    LET fs == IF NoFormats(arg) THEN FORMATS ELSE arg
        D == _load_data(fs, <<>>, cache)
        e == [EvNone EXCEPT !.op = "init", !.arg = arg, !.auto = auto,
                            !.stamp = IF auto THEN last_update ELSE NoTime]
    IN  /\ phase' = "ready"
        /\ formats' = fs
        /\ _loaded_formats' = DOMAIN D
        /\ IF auto /\ NeedsUpdate
           THEN \E r \in UpdaterRuns(Registry) :
                    update(D, Registry, r.o, [e EXCEPT !.raised = r.raised])
           ELSE /\ _data' = D
                /\ ev' = e
                /\ UNCHANGED <<cache, last_update, attempted>>

\* RandBatsData(formats=arg, auto_update=auto)
Construct(arg, auto) ==
    /\ __init__(arg, auto)
    /\ UNCHANGED <<bundled, threadVars, now, scriptVars>>

\* data._load_format(f)
LoadFormat(f) ==
    /\ phase = "ready"
    /\ _data' = _load_format(_data, f, cache)
    /\ _loaded_formats' = _loaded_formats \cup {f}
    /\ ev' = [EvNone EXCEPT !.op = "load", !.fmt = f]
    /\ UNCHANGED <<cache, bundled, threadVars, last_update, attempted, now, phase, formats, scriptVars>>

\* data.get_pokemon(name, f)
Get(name, f) ==
    /\ phase = "ready"
    /\ \E pick \in IF f # None \/ _loaded_formats = {} THEN {None} ELSE _loaded_formats :
           ev' = [EvNone EXCEPT !.op = "get", !.fmt = f, !.name = name,
                     !.ret = get_pokemon(_data, _loaded_formats, name, f, pick)]
    /\ UNCHANGED <<cache, bundled, threadVars, last_update, attempted, now, instanceVars, scriptVars>>

\* data.list_pokemon(f)
List(f) ==
    /\ phase = "ready"
    /\ ev' = [EvNone EXCEPT !.op = "list", !.fmt = f,
                 !.ret = [kind |-> list_pokemon(_data, f).kind, rec |-> <<>>],
                 !.keys = list_pokemon(_data, f).keys]
    /\ UNCHANGED <<cache, bundled, threadVars, last_update, attempted, now, instanceVars, scriptVars>>

\* data.get_formats()
GetFormats ==
    /\ phase = "ready"
    /\ ev' = [EvNone EXCEPT !.op = "formats", !.req = get_formats(_loaded_formats)]
    /\ UNCHANGED <<cache, bundled, threadVars, last_update, attempted, now, instanceVars,
                   scriptVars>>

\* data.get_cache_info()
CacheInfo ==
    /\ phase = "ready"
    /\ ev' = [EvNone EXCEPT !.op = "cache_info",
                 !.ret = RetRecord(get_cache_info(_data, _loaded_formats, last_update))]
    /\ UNCHANGED <<cache, bundled, threadVars, last_update, attempted, now, instanceVars,
                   scriptVars>>

\* data._load_data(), called again on the instance
LoadData ==
    /\ phase = "ready"
    /\ _data' = _load_data(formats, _data, cache)
    /\ _loaded_formats' = DOMAIN _load_data(formats, _data, cache)
    /\ ev' = [EvNone EXCEPT !.op = "load_data"]
    /\ UNCHANGED <<cache, bundled, threadVars, last_update, attempted, now, phase, formats, scriptVars>>

\* data.update(arg)
Update(arg) ==
    /\ phase = "ready"
    /\ LET fs == formats_to_update(arg, _data)
       IN  \E r \in UpdaterRuns(fs) :
               update(_data, fs, r.o, [EvNone EXCEPT !.op = "update", !.arg = arg,
                                                     !.raised = r.raised])
    /\ UNCHANGED <<bundled, threadVars, now, phase, formats, _loaded_formats, scriptVars>>

Next ==
    \/ \E arg \in FormatArgs, auto \in BOOLEAN : Construct(arg, auto)
    \/ \E f \in Registry : LoadFormat(f)
    \/ \E name \in QueryNames, f \in FormatTokens \cup {None} : Get(name, f)
    \/ \E f \in FormatTokens : List(f)
    \/ \E arg \in FormatArgs : Update(arg)
    \/ GetFormats
    \/ CacheInfo
    \/ LoadData

Spec == Init /\ [][Next]_vars

----------------------------------------------------------------------------
(* Properties of loading and lookup *)

\* the formats the last operation loaded
JustLoaded ==
    IF ev.op = "load" THEN {ev.fmt}
    ELSE IF ev.op = "init" THEN Range(formats) ELSE {}

\* C1: after a load, the in-memory dataset of the format is the content of its
\* cache file when that file is there and parses, otherwise the content of the
\* bundled snapshot when that is there and parses, and the empty dataset when
\* neither file exists; the snapshot is not used beside a readable cache file.
C1_LoadPrecedence ==
    \A f \in JustLoaded :
        /\ f \in DOMAIN _data
        /\ cache[f].kind = "json" => _data[f] = cache[f].val
        /\ cache[f].kind = "absent" /\ bundled[f].kind = "json"
               => _data[f] = bundled[f].val
        /\ cache[f].kind = "absent" /\ bundled[f].kind = "absent"
               => _data[f] = EmptyObj

C1_Witness ==
    \E f \in JustLoaded :
        /\ cache[f].kind = "json" /\ bundled[f].kind = "json"
        /\ cache[f].val # bundled[f].val
        /\ _data[f] = cache[f].val

\* C2: a cache file that exists and does not parse is treated as absent: the
\* loaded dataset is the bundled snapshot's content when a snapshot exists,
\* and empty only when none exists.
C2_CorruptFallsBack ==
    \A f \in JustLoaded :
        cache[f].kind = "corrupt" =>
            _data[f] = IF bundled[f].kind = "json" THEN bundled[f].val ELSE EmptyObj

\* C3: loading a format whose cache file is corrupt does not raise: the format
\* is loaded with a dataset, and list and get on it return normally.
C3_CorruptNeverRaises ==
    /\ \A f \in JustLoaded :
           cache[f].kind = "corrupt" =>
               /\ f \in _loaded_formats /\ f \in DOMAIN _data
               /\ _data[f].t = "object"
               /\ list_pokemon(_data, f).kind = "list"
    /\ ev.op \in {"get", "list"} /\ ev.fmt \in _loaded_formats
           /\ cache[ev.fmt].kind = "corrupt"
           => ev.ret.kind # "raise"

C3_Witness ==
    /\ ev.op = "get" /\ ev.fmt \in _loaded_formats
    /\ cache[ev.fmt].kind = "corrupt"
    /\ ev.ret = RetNone

\* C4: for a loaded format and a canonical key k of its dataset, get(n, format)
\* returns the record stored under k for every name n that normalizes to k.
C4_LookupConsistency ==
    ev.op = "get" /\ ev.fmt \in DOMAIN _data =>
        LET doc == _data[ev.fmt]
            k == _normalize_name(ev.name)
        IN  doc.t = "object" /\ HasKey(doc, k) => ev.ret = RetRecord(Lookup(doc, k))

C4_Witness ==
    /\ ev.op = "get" /\ ev.fmt \in DOMAIN _data
    /\ _data[ev.fmt] = DocCollide
    /\ ev.name = PIKACHU_
    /\ ev.ret = RetRecord(Rec(50))

\* C5: get never raises: it yields a record or absence in every reachable
\* state, and absence when the format is not loaded, when no key matches the
\* name, and when the format is omitted while nothing is loaded.
C5_GetNeverRaises ==
    ev.op = "get" =>
        /\ ev.ret.kind \in {"record", "none"}
        /\ ev.fmt # None /\ ev.fmt \notin DOMAIN _data => ev.ret = RetNone
        /\ ev.fmt = None /\ _loaded_formats = {} => ev.ret = RetNone
        /\ ev.fmt \in DOMAIN _data /\ _data[ev.fmt].t = "object"
               /\ FuzzyIndex(_data[ev.fmt], _normalize_name(ev.name)) = 0
               => ev.ret = RetNone

----------------------------------------------------------------------------
(* Properties of update *)

\* C6: when the primary fetch of a format fails during an update, the format
\* is not among the formats reported as updated, and get on it returns after
\* the update what it returned before.
C6_RefreshResilience ==
    [][ev'.op = "update" =>
          \A f \in ev'.req :
              ev'.outcome[f].primary = FetchFailed =>
                  /\ f \notin ev'.updated
                  /\ \A n \in QueryNames :
                         get_in_format(_data', n, f) = get_in_format(_data, n, f)]_vars

C6_Witness ==
    /\ ev.op = "update"
    /\ \E f \in ev.req :
           /\ ev.outcome[f].primary = FetchFailed
           /\ f \in DOMAIN _data
           /\ \E n \in QueryNames : get_in_format(_data, n, f).kind = "record"

\* C7: after update returns, get on every format reported as updated answers
\* from the dataset just persisted for it, loaded before the call or not, and
\* get on every other format answers as before the call.
C7_UpdatedObserved ==
    [][ev'.op = "update" =>
          /\ \A f \in ev'.updated : \A n \in QueryNames :
                 get_in_format(_data', n, f)
                     = get_in_format(f :> cache'[f].val, n, f)
          /\ \A f \in FormatTokens \ ev'.updated : \A n \in QueryNames :
                 get_in_format(_data', n, f) = get_in_format(_data, n, f)]_vars

----------------------------------------------------------------------------
(* scripts/update_all_data.py: download_randbats *)

\* the script's format list; it names the formats of the registry
RANDBATS_FORMATS == FORMATS

\* load_existing_data: the parsed file, {} when it is missing or unreadable
load_existing_data(file) == IF file.kind = "json" THEN file.val ELSE EmptyObj

\* not existing_data
PyFalsy(doc) == doc.kv = <<>>

\* The text of a JSON document, token by token: a bracket, a comma, or one
\* key with its value
Tok(p) == [p |-> p, e |-> <<>>]
Entry(kvi) == [p |-> "entry", e |-> kvi]

\* json.dump(doc, f): the tokens in the order they are written
Serialize(doc) ==
    IF doc.t = "list" THEN <<Tok("["), Tok("]")>>
    ELSE <<Tok("{")>>
         \o [i \in 1..(IF doc.kv = <<>> THEN 0 ELSE 2 * Len(doc.kv) - 1) |->
                IF i % 2 = 1 THEN Entry(doc.kv[(i + 1) \div 2]) ELSE Tok(",")]
         \o <<Tok("}")>>

\* json.load(f) of a file with the tokens text: the document, or no document
\* when the text is not a JSON text
NoParse == [ok |-> FALSE, doc |-> EmptyObj]
Parse(text) ==
    IF text = <<Tok("["), Tok("]")>> THEN [ok |-> TRUE, doc |-> JsonList]
    ELSE IF Len(text) < 2 \/ text[1] # Tok("{") \/ text[Len(text)] # Tok("}")
         THEN NoParse
    ELSE LET mid == SubSeq(text, 2, Len(text) - 1)
         IN  IF mid = <<>> THEN [ok |-> TRUE, doc |-> EmptyObj]
             ELSE IF /\ Len(mid) % 2 = 1
                     /\ \A i \in DOMAIN mid :
                            mid[i].p = IF i % 2 = 1 THEN "entry" ELSE ","
                  THEN [ok |-> TRUE,
                        doc |-> Obj([i \in 1..((Len(mid) + 1) \div 2) |-> mid[2 * i - 1].e])]
             ELSE NoParse

\* what a reader finds in a file with the tokens text
FileOfText(text) == IF Parse(text).ok THEN File(Parse(text).doc) ELSE Corrupt

\* the outcome of a write: it completes, or it raises after n tokens
WriteOk == [done |-> TRUE, n |-> 0]
Cut(n) == [done |-> FALSE, n |-> n]

\* a write that closes the object after the entries it has written
write_file_Closed(doc, w) ==
    IF w.done \/ doc.t # "object" THEN FileOfText(Serialize(doc))
    ELSE File(Obj(SubSeq(doc.kv, 1, IF w.n \div 2 < Len(doc.kv)
                                    THEN w.n \div 2 ELSE Len(doc.kv) - 1)))

\* with open(file, 'w') as f: json.dump(doc, f) -- open truncates the file,
\* the tokens written before the write raises stay in it
write_file(doc, w) ==
    IF w.done THEN FileOfText(Serialize(doc))
    ELSE LET text == Serialize(doc)
             n == IF w.n < Len(text) THEN w.n ELSE Len(text) - 1
         IN  FileOfText(SubSeq(text, 1, n))

\* the iteration with a populated data file never replaced
download_format_KeepPopulated(file, meta, a, w) ==
    IF a.primary = FetchFailed \/ ~w.data.done \/ ~PyFalsy(load_existing_data(file))
    THEN [data |-> IF PyFalsy(load_existing_data(file)) THEN File(EmptyObj) ELSE file,
          meta |-> meta, ok |-> a.primary # FetchFailed /\ w.data.done]
    ELSE [data |-> write_file(MergeStats(a.primary, a.stats), w.data),
          meta |-> IF a.meta = FetchFailed THEN meta ELSE write_file(a.meta, w.meta),
          ok |-> TRUE]

\* the iteration with a failure of the statistics fetch reaching the handler
download_format_StatsFatal(file, meta, a, w) ==
    IF a.primary = FetchFailed \/ a.stats = FetchFailed \/ ~w.data.done
    THEN [data |-> IF PyFalsy(load_existing_data(file)) THEN File(EmptyObj) ELSE file,
          meta |-> meta, ok |-> FALSE]
    ELSE [data |-> write_file(MergeStats(a.primary, a.stats), w.data),
          meta |-> IF a.meta = FetchFailed THEN meta ELSE write_file(a.meta, w.meta),
          ok |-> TRUE]

\* one iteration of the loop: the data file and the metadata file it leaves
\* for a format whose files were file and meta, the remote answering a, the
\* writes of the data file and of the metadata file ending as w.data, w.meta;
\* ok tells whether the iteration reaches its last line; the write of the
\* empty dataset in the handler completes
download_format(file, meta, a, w) ==
    IF a.primary = FetchFailed
    THEN [data |-> IF PyFalsy(load_existing_data(file)) THEN File(EmptyObj) ELSE file,
          meta |-> meta, ok |-> FALSE]
    ELSE IF ~w.data.done
    THEN [data |-> IF PyFalsy(load_existing_data(file)) THEN File(EmptyObj)
                   ELSE write_file(MergeStats(a.primary, a.stats), w.data),
          meta |-> meta, ok |-> FALSE]
    ELSE [data |-> write_file(MergeStats(a.primary, a.stats), w.data),
          meta |-> IF a.meta = FetchFailed THEN meta ELSE write_file(a.meta, w.meta),
          ok |-> TRUE]

\* the two directories after one iteration for the format f
download_step(dirs, f, a, w) ==
    [data |-> [dirs.data EXCEPT ![f] = download_format(dirs.data[f], dirs.meta[f], a, w).data],
     meta |-> [dirs.meta EXCEPT ![f] = download_format(dirs.data[f], dirs.meta[f], a, w).meta]]

\* download_randbats with the failure of a fetch leaving the loop
RECURSIVE download_randbats_Abort(_, _, _, _)
download_randbats_Abort(fs, dirs, o, w) ==
    IF fs = <<>> THEN dirs
    ELSE IF o[Head(fs)].primary = FetchFailed
         THEN download_step(dirs, Head(fs), o[Head(fs)], w[Head(fs)])
         ELSE download_randbats_Abort(
                  Tail(fs), download_step(dirs, Head(fs), o[Head(fs)], w[Head(fs)]), o, w)

\* for format_name in RANDBATS_FORMATS: try: ... except Exception: ...
RECURSIVE download_randbats(_, _, _, _)
download_randbats(fs, dirs, o, w) ==
    IF fs = <<>> THEN dirs
    ELSE download_randbats(
             Tail(fs), download_step(dirs, Head(fs), o[Head(fs)], w[Head(fs)]), o, w)

MetaOld == Obj(<< <<"sha", 3>> >>)
\* what a data file can hold before a run, the result of an earlier run included
DirPool ==
    {Absent, Corrupt, File(EmptyObj), File(JsonList), File(DocCanon),
     File(MergeStats(PrimaryA, StatsA))}

\* bound of the model: the tokens a write gets out before it raises
MaxCut == 4

\* how the writes of one iteration end: a write that is not reached completes
WriteRuns ==
    {[data |-> d, meta |-> mw] : d \in {WriteOk, Cut(0), Cut(MaxCut)},
                                  mw \in {WriteOk, Cut(0)}}
Runs ==
    {r \in [a : Answers, w : WriteRuns] :
        /\ r.a.primary = FetchFailed => r.w.data.done
        /\ ~r.w.data.done => r.a.meta = FetchFailed
        /\ r.a.meta = FetchFailed => r.w.meta.done}

InitSync ==
    /\ NoThreads
    /\ data_dir \in [Registry -> DirPool]
    /\ metadata_dir \in [Registry -> {Absent, File(MetaOld)}]
    /\ cache = [f \in FormatTokens |-> Absent]
    /\ bundled = [f \in FormatTokens |-> Absent]
    /\ last_update = NoTime
    /\ attempted = NoTime
    /\ now = 0
    /\ phase = "none"
    /\ formats = <<>>
    /\ _data = <<>>
    /\ _loaded_formats = {}
    /\ ev = EvNone

\* python scripts/update_all_data.py, the random battle part: main() runs the
\* loop once and the process ends
Download ==
    /\ ev.op = "none"
    /\ \E r \in [Registry -> Runs] :
        LET o == [f \in Registry |-> r[f].a]
            w == [f \in Registry |-> r[f].w]
            dirs == download_randbats(RANDBATS_FORMATS,
                                      [data |-> data_dir, meta |-> metadata_dir], o, w)
        IN  /\ data_dir' = dirs.data
            /\ metadata_dir' = dirs.meta
            /\ ev' = [EvNone EXCEPT
                      !.op = "download", !.req = Registry, !.outcome = o, !.cut = w,
                      !.prior = [data |-> data_dir, meta |-> metadata_dir],
                      !.updated = {f \in Registry :
                          download_format(data_dir[f], metadata_dir[f], o[f], w[f]).ok}]
    /\ UNCHANGED <<cache, bundled, threadVars, last_update, attempted, now, instanceVars>>

NextSync == Download

SpecSync == InitSync /\ [][NextSync]_vars

\* C8: when the primary fetch of a format fails, the sync writes nothing to the
\* format's persisted dataset: a populated file, an empty dataset, a corrupt
\* file or no file at all is afterwards what it was before.
C8_FailureWritesNothing ==
    [][ev'.op = "download" =>
          \A f \in Registry :
              ev'.outcome[f].primary = FetchFailed => data_dir'[f] = data_dir[f]]_vars

\* C9: a fetch failure for one format does not stop the batch: every format
\* whose primary fetch succeeds is fetched and persisted, before or after the
\* failing one.
C9_BatchIsolation ==
    ev.op = "download" =>
        \A f \in Registry :
            ev.outcome[f].primary # FetchFailed /\ ev.cut[f].data.done =>
                data_dir[f] = File(MergeStats(ev.outcome[f].primary, ev.outcome[f].stats))

C9_Witness ==
    /\ ev.op = "download"
    /\ ev.outcome[RANDBATS_FORMATS[1]].primary = FetchFailed
    /\ ev.outcome[RANDBATS_FORMATS[2]].primary = PrimaryA
    /\ data_dir[RANDBATS_FORMATS[2]].kind = "json"
    /\ Keys(data_dir[RANDBATS_FORMATS[2]].val) = Keys(PrimaryA)

----------------------------------------------------------------------------
(* The statistics merge on its own *)

\* bound on the number of keys of a document
MaxKeys == 2

MergeKeys == {<<"a">>, <<"c">>, <<"e">>}
MergeRecs == {Rec(1), WithStats(Rec(1), 9), <<>>}
StatVals == {1, 2}

\* the objects of at most MaxKeys keys, keys in K and values in V
ObjsOver(K, V) ==
    {Obj(kv) : kv \in {q \in UNION {[1..m -> K \X V] : m \in 0..MaxKeys} :
                          \A i, j \in DOMAIN q : q[i][1] = q[j][1] => i = j}}

InitMerge ==
    /\ NoThreads
    /\ ev \in {[EvNone EXCEPT !.op = "fetched", !.outcome = Answer(p, st, FetchFailed)] :
                  p \in ObjsOver(MergeKeys, MergeRecs),
                  st \in ObjsOver(MergeKeys, StatVals) \cup {FetchFailed, JsonList}}
    /\ data_dir = [f \in Registry |-> Absent]
    /\ metadata_dir = [f \in Registry |-> Absent]
    /\ cache = [f \in FormatTokens |-> Absent]
    /\ bundled = [f \in FormatTokens |-> Absent]
    /\ last_update = NoTime
    /\ attempted = NoTime
    /\ now = 0
    /\ phase = "none"
    /\ formats = <<>>
    /\ _data = <<>>
    /\ _loaded_formats = {}

\* the statistics step of the sync, lines 67-80
Merge ==
    /\ ev.op = "fetched"
    /\ ev' = [ev EXCEPT !.op = "merged",
                        !.doc = MergeStats(ev.outcome.primary, ev.outcome.stats)]
    /\ UNCHANGED <<cache, bundled, threadVars, last_update, attempted, now, instanceVars, scriptVars>>

NextMerge == Merge

SpecMerge == InitMerge /\ [][NextMerge]_vars

\* C10: the merged dataset has exactly the keys of the primary dataset; a
\* record has the statistics entry as its stats field exactly when its key is
\* in both documents; a record whose key the statistics document lacks is
\* unchanged; a statistics entry for a key the primary dataset lacks is dropped.
C10_StatisticsMerge ==
    ev.op = "merged" =>
        LET p == ev.outcome.primary
            st == ev.outcome.stats
            m == ev.doc
            sk == IF st.t = "object" THEN KeySet(st) ELSE {}
        IN  /\ Keys(m) = Keys(p)
            /\ \A k \in sk \ KeySet(p) : ~HasKey(m, k)
            /\ \A k \in KeySet(p) :
                   /\ k \in sk =>
                          /\ DOMAIN Lookup(m, k) = DOMAIN Lookup(p, k) \cup {"stats"}
                          /\ Lookup(m, k)["stats"] = Lookup(st, k)
                          /\ \A fld \in DOMAIN Lookup(p, k) \ {"stats"} :
                                 Lookup(m, k)[fld] = Lookup(p, k)[fld]
                   /\ k \notin sk => Lookup(m, k) = Lookup(p, k)
                   /\ "stats" \notin DOMAIN Lookup(p, k) =>
                          ("stats" \in DOMAIN Lookup(m, k) <=> k \in sk)

\* primary {a, c}, statistics {a, e}
C10_Witness ==
    /\ ev.op = "merged"
    /\ Keys(ev.outcome.primary) = << <<"a">>, <<"c">> >>
    /\ ev.outcome.stats.t = "object"
    /\ Keys(ev.outcome.stats) = << <<"a">>, <<"e">> >>
    /\ "stats" \notin DOMAIN Lookup(ev.outcome.primary, <<"a">>)
    /\ "stats" \in DOMAIN Lookup(ev.doc, <<"a">>)
    /\ "stats" \notin DOMAIN Lookup(ev.doc, <<"c">>)
    /\ ~HasKey(ev.doc, <<"e">>)

----------------------------------------------------------------------------
(* The staleness policy, with a clock *)

\* bounds of the model: the hours one step of the clock takes, and the last
\* hour the clock reaches
TickHours == 12
MaxNow == 36

\* the age in hours of the last_update file found at the start
ClockAges == {0, 1, UPDATE_INTERVAL - 1, UPDATE_INTERVAL, UPDATE_INTERVAL + 1}

InitClock ==
    /\ NoThreads
    /\ cache \in [FormatTokens -> {Absent, File(DocRaw)}]
    /\ \A f \in FormatTokens \ {"gen9randombattle"} : cache[f] = Absent
    /\ bundled = [f \in FormatTokens |-> Absent]
    /\ last_update \in {NoTime, BadTime} \cup {Time(0 - a) : a \in ClockAges}
    /\ attempted = NoTime
    /\ now = 0
    /\ phase = "none"
    /\ formats = <<>>
    /\ _data = <<>>
    /\ _loaded_formats = {}
    /\ data_dir = [f \in Registry |-> Absent]
    /\ metadata_dir = [f \in Registry |-> Absent]
    /\ ev = EvNone

\* time passes
Tick ==
    /\ now + TickHours <= MaxNow
    /\ now' = now + TickHours
    /\ ev' = [EvNone EXCEPT !.op = "tick"]
    /\ UNCHANGED <<cache, bundled, threadVars, last_update, attempted, instanceVars, scriptVars>>

NextClock ==
    \/ \E arg \in FormatArgs, auto \in BOOLEAN : Construct(arg, auto)
    \/ \E arg \in FormatArgs : Update(arg)
    \/ Tick

SpecClock == InitClock /\ [][NextClock]_vars

\* C11: a constructor with auto_update on calls the refresh when the
\* last_update file it reads is absent or at least 24 hours old, and calls no
\* refresh when the file is less than 24 hours old.
C11_StalenessPolicy ==
    ev.op = "init" /\ ev.auto =>
        /\ ev.stamp.kind = "absent" => ev.synced
        /\ ev.stamp.kind = "time" /\ now - ev.stamp.t >= 24 => ev.synced
        /\ ev.stamp.kind = "time" /\ now - ev.stamp.t < 24 => ~ev.synced

\* a constructor that found the file exactly 24 hours old, and refreshed
C11_Witness ==
    /\ ev.op = "init" /\ ev.auto /\ ev.synced
    /\ ev.stamp.kind = "time"
    /\ now - ev.stamp.t = 24

\* C12: the refresh a constructor triggers asks the updater for exactly the
\* formats configured for the instance, and afterwards every format that came
\* back as updated is loaded with the content of its cache file.
C12_AutoRefreshScope ==
    ev.op = "init" /\ ev.synced =>
        /\ ev.req = Range(formats)
        /\ \A f \in ev.updated :
               f \in DOMAIN _data /\ _data[f] = LoadDoc(cache[f], bundled[f])

\* C13: every call of the updater is followed by the write of the last_update
\* file, whatever the updater fetched; a constructor with auto_update on that
\* runs less than 24 hours after a call of the updater calls no refresh.
C13_TimestampRecorded ==
    [][/\ ev'.synced /\ ~ev'.raised => last_update' = Time(now')
       /\ attempted'.kind = "time" => last_update' = attempted'
       /\ ev'.op = "init" /\ ev'.auto /\ attempted.kind = "time"
              /\ now - attempted.t < 24 => ~ev'.synced]_vars

\* a constructor 12 hours after a refresh that fetched nothing: no refresh
C13_Witness ==
    /\ ev.op = "init" /\ ev.auto /\ ~ev.synced
    /\ attempted.kind = "time"
    /\ now > attempted.t
    /\ ev.stamp = attempted
    /\ \A f \in Registry : cache[f] = Absent

----------------------------------------------------------------------------
(* _normalize_name as a function of the name *)

\* bound of the model: the length of a name
MaxName == 3

NameChars == {"a", "A", "1", ".", " ", "e'", "E'", "S'", "s'"}
Names == UNION {[1..n -> NameChars] : n \in 0..MaxName}

InitNorm ==
    /\ NoThreads
    /\ ev \in {[EvNone EXCEPT !.op = "name", !.name = x] : x \in Names}
    /\ cache = [f \in FormatTokens |-> Absent]
    /\ bundled = [f \in FormatTokens |-> Absent]
    /\ last_update = NoTime
    /\ attempted = NoTime
    /\ now = 0
    /\ phase = "none"
    /\ formats = <<>>
    /\ _data = <<>>
    /\ _loaded_formats = {}
    /\ data_dir = [f \in Registry |-> Absent]
    /\ metadata_dir = [f \in Registry |-> Absent]

\* self._normalize_name(name)
Normalize ==
    /\ ev.op = "name"
    /\ ev' = [ev EXCEPT !.op = "normalized", !.out = _normalize_name(ev.name)]
    /\ UNCHANGED <<cache, bundled, threadVars, last_update, attempted, now, instanceVars,
                   scriptVars>>

NextNorm == Normalize

SpecNorm == InitNorm /\ [][NextNorm]_vars

\* C14: the key of a key is the key itself; a name keeps its key when one of
\* its letters changes case and when a character that is no letter or digit is
\* put into it; "Mr. Mime" and "mrmime" have the key "mrmime".
C14_NormalizeAlgebra ==
    ev.op = "normalized" =>
        LET x == ev.name
            k == ev.out
        IN  /\ _normalize_name(k) = k
            /\ \A i \in DOMAIN x, d \in NameChars :
                   LowerChar(d) = LowerChar(x[i]) =>
                       _normalize_name([x EXCEPT ![i] = d]) = k
            /\ \A i \in 1..(Len(x) + 1), p \in Punct :
                   _normalize_name(SubSeq(x, 1, i - 1) \o <<p>>
                                       \o SubSeq(x, i, Len(x))) = k
            /\ _normalize_name(Mr_Mime) = mrmime
            /\ _normalize_name(mrmime) = mrmime

\* C15: the key holds ASCII lower-case letters and ASCII digits only.
C15_AsciiKey ==
    ev.op = "normalized" =>
        \A i \in DOMAIN ev.out : ev.out[i] \in Range(LowerAscii) \cup Digits

----------------------------------------------------------------------------
(* The format tokens of a caller: resolve_formats, constructor, update *)

\* formats.py FORMATS, whole
AllFormats ==
    <<"gen1randombattle", "gen2randombattle", "gen3randombattle",
      "gen4randombattle", "gen5randombattle", "gen6randombattle",
      "gen7letsgorandombattle", "gen7randombattle", "gen8bdsprandombattle",
      "gen8randombattle", "gen8randomdoublesbattle", "gen9babyrandombattle",
      "gen9randombattle", "gen9randomdoublesbattle">>

FORMAT_MAPPINGS ==
    ("gen1" :> <<"gen1randombattle">>) @@ ("gen2" :> <<"gen2randombattle">>) @@
    ("gen3" :> <<"gen3randombattle">>) @@ ("gen4" :> <<"gen4randombattle">>) @@
    ("gen5" :> <<"gen5randombattle">>) @@ ("gen6" :> <<"gen6randombattle">>) @@
    ("gen7" :> <<"gen7randombattle">>) @@ ("gen8" :> <<"gen8randombattle">>) @@
    ("gen9" :> <<"gen9randombattle">>) @@
    ("classic" :> <<"gen1randombattle", "gen2randombattle", "gen3randombattle",
                    "gen4randombattle">>) @@
    ("modern" :> <<"gen8randombattle", "gen9randombattle">>) @@
    ("doubles" :> <<"gen8randomdoublesbattle", "gen9randomdoublesbattle">>) @@
    ("letsgo" :> <<"gen7letsgorandombattle">>) @@
    ("bdsp" :> <<"gen8bdsprandombattle">>) @@
    ("baby" :> <<"gen9babyrandombattle">>) @@
    ("all" :> AllFormats)

Aliases == DOMAIN FORMAT_MAPPINGS
AllFormatSet == Range(AllFormats)

\* the list resolve_formats builds, lines 129-137
RECURSIVE resolved(_)
resolved(fs) ==
    IF fs = <<>> THEN <<>>
    ELSE (IF Head(fs) \in Aliases THEN FORMAT_MAPPINGS[Head(fs)]
          ELSE IF Head(fs) \in AllFormatSet THEN <<Head(fs)>>
          ELSE <<>>) \o resolved(Tail(fs))

\* list(set(...)): every element once, in the order the hash seed of the
\* process gives; the model takes the orders of FORMATS turned by seed places
HashSeeds == {0, 5}
ListOfSet(S, seed) ==
    SelectSeq(SubSeq(AllFormats, seed + 1, Len(AllFormats))
                  \o SubSeq(AllFormats, 1, seed),
              LAMBDA f : f \in S)

\* resolve_formats that returns the list it built
resolve_formats_NoSet(fs, seed) == resolved(fs)

\* resolve_formats(fs), line 138
resolve_formats(fs, seed) == ListOfSet(Range(resolved(fs)), seed)

\* bound of the model: the number of tokens a caller passes
MaxTokens == 2

ResolveTokens ==
    Aliases \cup {"gen9randombattle", "gen7letsgorandombattle", UnknownFormat}
TokenLists == UNION {[1..n -> ResolveTokens] : n \in 0..MaxTokens}

InitTokens ==
    /\ NoThreads
    /\ ev \in {EvNone} \cup {[EvNone EXCEPT !.op = "tokens", !.arg = fs] : fs \in TokenLists}
    /\ cache \in [FormatTokens -> {Absent, File(DocRaw)}]
    /\ \A f \in FormatTokens \ {"gen9randombattle"} : cache[f] = Absent
    /\ bundled = [f \in FormatTokens |-> Absent]
    /\ last_update = NoTime
    /\ attempted = NoTime
    /\ now = 0
    /\ phase = "none"
    /\ formats = <<>>
    /\ _data = <<>>
    /\ _loaded_formats = {}
    /\ data_dir = [f \in Registry |-> Absent]
    /\ metadata_dir = [f \in Registry |-> Absent]

\* resolve_formats(tokens)
Resolve ==
    /\ ev.op = "tokens"
    /\ \E seed \in HashSeeds :
           ev' = [ev EXCEPT !.op = "resolved", !.out = resolve_formats(ev.arg, seed)]
    /\ UNCHANGED <<cache, bundled, threadVars, last_update, attempted, now, instanceVars,
                   scriptVars>>

NextTokens ==
    \/ Resolve
    \/ \E arg \in FormatArgs, auto \in BOOLEAN : Construct(arg, auto)
    \/ \E arg \in FormatArgs : Update(arg)

SpecTokens == InitTokens /\ [][NextTokens]_vars

\* C16: resolve_formats returns, without duplicates, exactly the formats of
\* the aliases among its tokens and the registered formats among its tokens;
\* a token that is neither adds nothing; every format returned is registered;
\* the set returned does not depend on the order of the tokens nor on how
\* often a token occurs; "classic" gives the random battles of gen1 to gen4.
C16_ResolveAliases ==
    ev.op = "resolved" =>
        LET Expand(t) == IF t \in Aliases THEN Range(FORMAT_MAPPINGS[t])
                         ELSE IF t \in AllFormatSet THEN {t} ELSE {}
            Reverse(q) == [i \in 1..Len(q) |-> q[Len(q) + 1 - i]]
        IN  /\ \A i, j \in DOMAIN ev.out : ev.out[i] = ev.out[j] => i = j
            /\ Range(ev.out) = UNION {Expand(t) : t \in Range(ev.arg)}
            /\ Range(ev.out) \subseteq AllFormatSet
            /\ \A seed \in HashSeeds :
                   /\ Range(resolve_formats(Reverse(ev.arg), seed)) = Range(ev.out)
                   /\ Range(resolve_formats(ev.arg \o ev.arg, seed)) = Range(ev.out)
                   /\ Range(resolve_formats(<<"classic">>, seed)) =
                          {"gen1randombattle", "gen2randombattle",
                           "gen3randombattle", "gen4randombattle"}

\* "modern" and "gen9" name gen9randombattle twice; it is returned once
C16_Witness ==
    /\ ev.op = "resolved"
    /\ ev.arg = <<"modern", "gen9">>
    /\ Len(ev.out) = 2

----------------------------------------------------------------------------
(* The facade: listing and the loaded formats *)

\* C17: list_pokemon returns the keys of the loaded dataset in the dataset's
\* order, as many as the persisted dataset it was loaded from has entries; for
\* a format that is not loaded it returns the empty list; it does not raise.
C17_ListKeys ==
    ev.op = "list" =>
        LET f == ev.fmt
            persisted == IF cache[f].kind = "json" THEN cache[f].val
                         ELSE IF cache[f].kind = "absent" /\ bundled[f].kind = "json"
                              THEN bundled[f].val
                         ELSE EmptyObj
        IN  /\ ev.ret.kind = "list"
            /\ f \notin _loaded_formats => ev.keys = <<>>
            /\ f \in _loaded_formats =>
                   /\ ev.keys = Keys(_data[f])
                   /\ Len(ev.keys) = Len(persisted.kv)

\* C18: after the constructor every configured format is loaded, whatever
\* files it found, and the loaded formats are the configured formats.
C18_ConfiguredLoaded ==
    ev.op = "init" =>
        /\ formats = IF ev.arg = <<>> THEN FORMATS ELSE ev.arg
        /\ _loaded_formats = Range(formats)
        /\ DOMAIN _data = Range(formats)

\* a format loaded from its cache file and a token with no file at all
C18_Witness ==
    /\ ev.op = "init"
    /\ ev.arg = <<"gen8randombattle", UnknownFormat>>
    /\ cache["gen8randombattle"].kind = "json"
    /\ _data["gen8randombattle"] = cache["gen8randombattle"].val
    /\ cache[UnknownFormat] = Absent /\ bundled[UnknownFormat] = Absent
    /\ _loaded_formats = {"gen8randombattle", UnknownFormat}
    /\ _data[UnknownFormat] = EmptyObj

\* C19: the loaded formats are the formats with an in-memory dataset, and
\* every in-memory dataset is a mapping.
C19_DatasetIsMapping ==
    /\ _loaded_formats = DOMAIN _data
    /\ \A f \in DOMAIN _data : _data[f].t = "object"

----------------------------------------------------------------------------
(* Lookup with the format omitted, and keys with one normal form *)

\* two keys with the same canonical form, none of them canonical
DocCollideRaw == Obj(<< <<Pikachu, Rec(70)>>, <<PIKACHU_, Rec(80)>> >>)
\* a record that is the empty mapping
DocVoid == Obj(<< <<pikachu, <<>> >>, <<mrmime, Rec(55)>> >>)

LookupTokens == Range(recent_formats) \cup {UnknownFormat}
LookupPool == {Absent, File(DocCanon), File(DocCollide), File(DocCollideRaw),
               File(DocVoid)}
LookupArgs ==
    {recent_formats, <<"gen8randombattle", "gen7randombattle">>,
     <<"gen7randombattle">>, <<"gen8randombattle", UnknownFormat>>}

InitLookup ==
    /\ NoThreads
    /\ cache \in [LookupTokens -> LookupPool]
    /\ cache[UnknownFormat] \in {Absent, File(DocCanon)}
    /\ bundled = [f \in LookupTokens |-> Absent]
    /\ last_update = NoTime
    /\ attempted = NoTime
    /\ now = 0
    /\ phase = "none"
    /\ formats = <<>>
    /\ _data = <<>>
    /\ _loaded_formats = {}
    /\ data_dir = [f \in Registry |-> Absent]
    /\ metadata_dir = [f \in Registry |-> Absent]
    /\ ev = EvNone

NextLookup ==
    \/ \E arg \in LookupArgs : Construct(arg, FALSE)
    \/ \E name \in QueryNames, f \in LookupTokens \cup {None} : Get(name, f)

SpecLookup == InitLookup /\ [][NextLookup]_vars

\* C21: get_pokemon without a format returns the record of the first of
\* gen9randombattle, gen8randombattle, gen7randombattle that is loaded and in
\* which the name resolves; when the name resolves in none of them, it returns
\* what the lookup in one loaded format returns, and None when none is loaded.
C21_AutoDetect ==
    ev.op = "get" /\ ev.fmt = None =>
        LET Resolves(g) == /\ g \in DOMAIN _data
                           /\ get_in_format(_data, ev.name, g).kind = "record"
            hits == {i \in DOMAIN recent_formats : Resolves(recent_formats[i])}
            first == CHOOSE i \in hits : \A j \in hits : i <= j
        IN  IF hits # {}
            THEN ev.ret = get_in_format(_data, ev.name, recent_formats[first])
            ELSE IF _loaded_formats = {} THEN ev.ret = RetNone
            ELSE \E g \in _loaded_formats :
                     ev.ret = get_in_format(_data, ev.name, g)

\* C30 as stated: when several keys of the dataset have the normal form of
\* the name, get_pokemon returns the record of the first of them in the
\* dataset's key order, also when one of them is the normal form itself.
C30_FirstKeyWins ==
    ev.op = "get" /\ ev.fmt \in DOMAIN _data =>
        LET doc == _data[ev.fmt]
            n == _normalize_name(ev.name)
            hits == {i \in DOMAIN doc.kv : _normalize_name(doc.kv[i][1]) = n}
            first == CHOOSE i \in hits : \A j \in hits : i <= j
        IN  Cardinality(hits) > 1 => ev.ret = RetRecord(doc.kv[first][2])

\* C30, amended: when several keys of the dataset have the normal form of the
\* name, get_pokemon returns the record of the key that is the normal form
\* itself when there is one, and else the record of the first of them in the
\* dataset's key order.
C30_CollisionRule ==
    ev.op = "get" /\ ev.fmt \in DOMAIN _data =>
        LET doc == _data[ev.fmt]
            n == _normalize_name(ev.name)
            hits == {i \in DOMAIN doc.kv : _normalize_name(doc.kv[i][1]) = n}
            first == CHOOSE i \in hits : \A j \in hits : i <= j
            exact == CHOOSE i \in hits : doc.kv[i][1] = n
        IN  Cardinality(hits) > 1 =>
                IF \E i \in hits : doc.kv[i][1] = n
                THEN ev.ret = RetRecord(doc.kv[exact][2])
                ELSE ev.ret = RetRecord(doc.kv[first][2])

\* "Pikachu" and "PIKACHU " collide, none is canonical: the first one wins
C30_Witness ==
    /\ ev.op = "get" /\ ev.fmt \in DOMAIN _data
    /\ _data[ev.fmt] = DocCollideRaw
    /\ ev.name = PIKACHU_
    /\ ev.ret = RetRecord(Rec(70))

----------------------------------------------------------------------------
(* formats.py: get_format_info, _extract_generation, _extract_type *)

DigitChars == {"1", "2", "3", "4", "5", "6", "7", "8", "9"}

\* the words format names are made of, and their characters
Spell ==
    ("gen" :> <<"g", "e", "n">>) @@
    ("random" :> <<"r", "a", "n", "d", "o", "m">>) @@
    ("doubles" :> <<"d", "o", "u", "b", "l", "e", "s">>) @@
    ("letsgo" :> <<"l", "e", "t", "s", "g", "o">>) @@
    ("bdsp" :> <<"b", "d", "s", "p">>) @@
    ("baby" :> <<"b", "a", "b", "y">>) @@
    ("battle" :> <<"b", "a", "t", "t", "l", "e">>) @@
    [c \in DigitChars \cup {"x"} |-> <<c>>]

RECURSIVE Flatten(_)
Flatten(ws) == IF ws = <<>> THEN <<>> ELSE Spell[Head(ws)] \o Flatten(Tail(ws))

\* the names of FORMATS, word by word
FormatWords ==
    ("gen1randombattle" :> <<"gen", "1", "random", "battle">>) @@
    ("gen2randombattle" :> <<"gen", "2", "random", "battle">>) @@
    ("gen3randombattle" :> <<"gen", "3", "random", "battle">>) @@
    ("gen4randombattle" :> <<"gen", "4", "random", "battle">>) @@
    ("gen5randombattle" :> <<"gen", "5", "random", "battle">>) @@
    ("gen6randombattle" :> <<"gen", "6", "random", "battle">>) @@
    ("gen7letsgorandombattle" :> <<"gen", "7", "letsgo", "random", "battle">>) @@
    ("gen7randombattle" :> <<"gen", "7", "random", "battle">>) @@
    ("gen8bdsprandombattle" :> <<"gen", "8", "bdsp", "random", "battle">>) @@
    ("gen8randombattle" :> <<"gen", "8", "random", "battle">>) @@
    ("gen8randomdoublesbattle" :> <<"gen", "8", "random", "doubles", "battle">>) @@
    ("gen9babyrandombattle" :> <<"gen", "9", "baby", "random", "battle">>) @@
    ("gen9randombattle" :> <<"gen", "9", "random", "battle">>) @@
    ("gen9randomdoublesbattle" :> <<"gen", "9", "random", "doubles", "battle">>)

\* the characters of a registered format name
NameOf(f) == Flatten(FormatWords[f])

\* w in s
Contains(s, w) ==
    \E i \in 1..(Len(s) - Len(w) + 1) : SubSeq(s, i, i + Len(w) - 1) = w
\* s.startswith(w)
StartsWith(s, w) == Len(s) >= Len(w) /\ SubSeq(s, 1, Len(w)) = w

unknown == <<"u", "n", "k", "n", "o", "w", "n">>

\* _extract_generation: format_name[3:4] is the fourth character, or the
\* empty string when the name has only three
_extract_generation(format_name) ==
    IF StartsWith(format_name, Spell["gen"])
    THEN IF Len(format_name) >= 4 THEN <<format_name[4]>> ELSE <<>>
    ELSE unknown

_extract_type(format_name) ==
    IF Contains(format_name, Spell["doubles"]) THEN "doubles"
    ELSE IF Contains(format_name, Spell["letsgo"]) THEN "letsgo"
    ELSE IF Contains(format_name, Spell["bdsp"]) THEN "bdsp"
    ELSE IF Contains(format_name, Spell["baby"]) THEN "baby"
    ELSE "singles"

\* get_format_info(format_name), D the _data of the global instance
get_format_info(format_name, D) ==
    IF \A f \in AllFormatSet : NameOf(f) # format_name THEN <<>>
    ELSE LET info == [name |-> format_name,
                      generation |-> _extract_generation(format_name),
                      type |-> _extract_type(format_name),
                      available |-> TRUE]
             loaded == {f \in DOMAIN D \cap AllFormatSet : NameOf(f) = format_name}
         IN  IF loaded = {} THEN info
             ELSE info @@ [c \in {"pokemon_count"} |->
                              Len(D[CHOOSE f \in loaded : TRUE].kv)]

\* bound of the model: the number of words of a name
MaxWords == 3

DescribeWords == {"gen", "9", "x", "doubles", "letsgo", "bdsp", "baby", "battle"}
DescribeNames ==
    {Flatten(ws) : ws \in UNION {[1..n -> DescribeWords] : n \in 0..MaxWords}}
        \cup {NameOf(f) : f \in AllFormatSet}

\* the global instance was constructed with the defaults; its refresh ended
\* with no format updated
InitDescribe ==
    /\ NoThreads
    /\ ev \in {[EvNone EXCEPT !.op = "format", !.name = x] : x \in DescribeNames}
    /\ cache \in [FormatTokens -> {Absent, File(DocCanon)}]
    /\ cache[UnknownFormat] = Absent
    /\ bundled = [f \in FormatTokens |-> Absent]
    /\ last_update = Time(0)
    /\ attempted = Time(0)
    /\ now = 0
    /\ phase = "ready"
    /\ formats = FORMATS
    /\ _data = _load_data(FORMATS, <<>>, cache)
    /\ _loaded_formats = Registry
    /\ data_dir = [f \in Registry |-> Absent]
    /\ metadata_dir = [f \in Registry |-> Absent]

\* get_format_info(name); the two helpers are recorded for every name
Describe ==
    /\ ev.op = "format"
    /\ ev' = [ev EXCEPT !.op = "described",
                        !.ret = RetRecord(get_format_info(ev.name, _data)),
                        !.out = _extract_generation(ev.name),
                        !.type = _extract_type(ev.name)]
    /\ UNCHANGED <<cache, bundled, threadVars, last_update, attempted, now, instanceVars,
                   scriptVars>>

NextDescribe == Describe

SpecDescribe == InitDescribe /\ [][NextDescribe]_vars

\* C22: the battle type is the first of doubles, letsgo, bdsp, baby whose
\* name is part of the format name, singles when none is; the generation is
\* the digit right after the prefix "gen", "unknown" when the name does not
\* start with "gen" or no digit follows; get_format_info reports both.
C22_Describe ==
    ev.op = "described" =>
        LET n == ev.name
            has(w) == Contains(n, Spell[w])
        IN  /\ has("doubles") => ev.type = "doubles"
            /\ ~has("doubles") /\ has("letsgo") => ev.type = "letsgo"
            /\ ~has("doubles") /\ ~has("letsgo") /\ has("bdsp") => ev.type = "bdsp"
            /\ ~has("doubles") /\ ~has("letsgo") /\ ~has("bdsp") /\ has("baby")
                   => ev.type = "baby"
            /\ ~has("doubles") /\ ~has("letsgo") /\ ~has("bdsp") /\ ~has("baby")
                   => ev.type = "singles"
            /\ ev.out = IF StartsWith(n, Spell["gen"]) /\ Len(n) >= 4
                               /\ n[4] \in DigitChars
                        THEN <<n[4]>> ELSE unknown
            /\ ev.ret.rec # <<>> =>
                   ev.ret.rec.generation = ev.out /\ ev.ret.rec.type = ev.type

----------------------------------------------------------------------------
(* The read operations *)

\* C23: get_pokemon, list_pokemon, get_formats and get_cache_info leave the
\* in-memory datasets, the loaded formats, the cache files, the bundled files
\* and the last_update file as they were; the total of get_cache_info is the
\* sum of its counts, and it has one count for each loaded format.
C23_ReadOnly ==
    [][ev'.op \in {"get", "list", "formats", "cache_info"} =>
          /\ _data' = _data
          /\ _loaded_formats' = _loaded_formats
          /\ cache' = cache /\ bundled' = bundled
          /\ last_update' = last_update
          /\ ev'.op = "cache_info" =>
                 LET info == ev'.ret.rec
                 IN  /\ DOMAIN info.format_counts = _loaded_formats
                     /\ info.loaded_formats = _loaded_formats
                     /\ info.total_pokemon =
                            SumLen([f \in _loaded_formats |->
                                       Obj([i \in 1..info.format_counts[f] |-> i])],
                                   _loaded_formats)
          /\ ev'.op = "formats" => ev'.req = _loaded_formats]_vars

\* get_cache_info on three loaded formats, one of them loaded after the
\* constructor, with two and two records
C23_Witness ==
    /\ ev.op = "cache_info"
    /\ Cardinality(_loaded_formats) = 3
    /\ ev.ret.rec.total_pokemon = 4
    /\ "last_update" \in DOMAIN ev.ret.rec

\* ---------------------------------------------------------------------------
\* Refreshing and the persisted dataset
\* ---------------------------------------------------------------------------

\* C24: a refresh never destroys persisted data on failure: when the primary
\* fetch of a format fails or the write of its new dataset fails partway, the
\* dataset that was persisted for the format before the run is still what is
\* persisted after it.
C24_RefreshKeepsData ==
    [][ev'.op = "download" =>
          \A f \in Registry :
              /\ data_dir[f].kind = "json"
              /\ data_dir[f].val.t = "object"
              /\ ev'.outcome[f].primary = FetchFailed \/ ~ev'.cut[f].data.done
              => data_dir'[f] = data_dir[f]]_vars

\* the part of C24 the script keeps: a failed fetch leaves a persisted dataset
C24_FetchFailureKeepsData ==
    [][ev'.op = "download" =>
          \A f \in Registry :
              /\ data_dir[f].kind = "json"
              /\ data_dir[f].val.t = "object"
              /\ ev'.outcome[f].primary = FetchFailed
              => data_dir'[f] = data_dir[f]]_vars

\* ---------------------------------------------------------------------------
\* One write of a dataset file, completed or interrupted
\* ---------------------------------------------------------------------------

\* the datasets written and the points at which a write can stop
WriteDocs ==
    {EmptyObj, DocCanon, PrimaryB, MergeStats(PrimaryA, FetchFailed),
     MergeStats(PrimaryA, StatsA)}
WriteOutcomes == {WriteOk} \cup {Cut(n) : n \in 0..MaxCut}

WriteFormat == RANDBATS_FORMATS[1]

InitWrite ==
    /\ NoThreads
    /\ data_dir \in [Registry -> DirPool]
    /\ metadata_dir = [f \in Registry |-> Absent]
    /\ cache = [f \in FormatTokens |-> Absent]
    /\ bundled = [f \in FormatTokens |-> Absent]
    /\ last_update = NoTime
    /\ attempted = NoTime
    /\ now = 0
    /\ phase = "none"
    /\ formats = <<>>
    /\ _data = <<>>
    /\ _loaded_formats = {}
    /\ ev \in {[EvNone EXCEPT !.op = "write", !.doc = d, !.cut = w] :
                  d \in WriteDocs, w \in WriteOutcomes}

\* the write of lines 82-84 for one format; ev.ret keeps the file as it was
WriteDataset ==
    /\ ev.op = "write"
    /\ data_dir' = [data_dir EXCEPT ![WriteFormat] = write_file(ev.doc, ev.cut)]
    /\ ev' = [ev EXCEPT !.op = "written", !.ret = data_dir[WriteFormat]]
    /\ UNCHANGED <<metadata_dir, cache, bundled, threadVars, last_update, attempted, now,
                   instanceVars>>

NextWrite == WriteDataset

SpecWrite == InitWrite /\ [][NextWrite]_vars

WithStatsField(file) ==
    {i \in DOMAIN file.val.kv : "stats" \in DOMAIN file.val.kv[i][2]}

\* C26: a successful sync of a format replaces the whole persisted dataset: the
\* persisted dataset is the merged fetched dataset exactly, a key of the prior
\* dataset that the fetched one lacks is gone, and no record keeps a field of
\* the prior record.
C26_WholeReplacement ==
    ev.op = "download" =>
        \A f \in ev.updated :
            LET merged == MergeStats(ev.outcome[f].primary, ev.outcome[f].stats)
            IN  /\ data_dir[f].kind = "json"
                /\ data_dir[f].val = merged
                /\ KeySet(data_dir[f].val) = KeySet(ev.outcome[f].primary)
                /\ \A k \in KeySet(ev.prior.data[f].val) \ KeySet(ev.outcome[f].primary) :
                       ~HasKey(data_dir[f].val, k)
                /\ \A k \in KeySet(merged) :
                       Lookup(data_dir[f].val, k) = Lookup(merged, k)

C26_Witness ==
    /\ ev.op = "download"
    /\ RANDBATS_FORMATS[1] \in ev.updated
    /\ ev.prior.data[RANDBATS_FORMATS[1]] = File(MergeStats(PrimaryA, StatsA))
    /\ ev.outcome[RANDBATS_FORMATS[1]].primary = PrimaryB
    /\ ev.outcome[RANDBATS_FORMATS[1]].stats = FetchFailed
    /\ data_dir[RANDBATS_FORMATS[1]] = File(PrimaryB)
    /\ ~HasKey(data_dir[RANDBATS_FORMATS[1]].val, pikachu)

\* C27: a failure of the statistics fetch is not a failure of the format: when
\* the primary fetch succeeds, the statistics fetch fails and the dataset is
\* written, the primary dataset is persisted unchanged, no record has a stats
\* field, and the format counts as updated.
C27_StatsOptional ==
    ev.op = "download" =>
        \A f \in Registry :
            /\ ev.outcome[f].primary # FetchFailed
            /\ ev.outcome[f].stats = FetchFailed
            /\ ev.cut[f].data.done
            => /\ data_dir[f] = File(ev.outcome[f].primary)
               /\ WithStatsField(data_dir[f]) = {}
               /\ f \in ev.updated

C27_Witness ==
    /\ ev.op = "download"
    /\ ev.outcome[RANDBATS_FORMATS[2]].primary = PrimaryA
    /\ ev.outcome[RANDBATS_FORMATS[2]].stats = FetchFailed
    /\ ev.prior.data[RANDBATS_FORMATS[2]] = File(MergeStats(PrimaryA, StatsA))
    /\ data_dir[RANDBATS_FORMATS[2]] = File(PrimaryA)
    /\ RANDBATS_FORMATS[2] \in ev.updated

\* C28: a failure to fetch or to persist the provenance metadata does not
\* change the outcome for the format: the dataset written in the step before
\* stays persisted with its new content, the metadata persisted before the run
\* is left as it was, and the format counts as updated.
C28_MetadataOptional ==
    ev.op = "download" =>
        \A f \in Registry :
            /\ ev.outcome[f].primary # FetchFailed
            /\ ev.cut[f].data.done
            /\ ev.outcome[f].meta = FetchFailed \/ ~ev.cut[f].meta.done
            => /\ data_dir[f] = File(MergeStats(ev.outcome[f].primary, ev.outcome[f].stats))
               /\ metadata_dir[f] = ev.prior.meta[f]
               /\ f \in ev.updated

\* the part of C28 the script keeps: a failed metadata fetch changes nothing
C28_MetadataFetchOptional ==
    ev.op = "download" =>
        \A f \in Registry :
            /\ ev.outcome[f].primary # FetchFailed
            /\ ev.cut[f].data.done
            /\ ev.outcome[f].meta = FetchFailed
            => /\ data_dir[f] = File(MergeStats(ev.outcome[f].primary, ev.outcome[f].stats))
               /\ metadata_dir[f] = ev.prior.meta[f]
               /\ f \in ev.updated

\* ---------------------------------------------------------------------------
\* setup.py: the download command of the build
\* ---------------------------------------------------------------------------

\* the body of the loop of DownloadDataCommand.run for one format: the data
\* file receives the response as it is, the metadata is fetched next and then
\* written, and the handler of any failure writes an empty object to the data
\* file; the command has no statistics fetch, its writes complete
build_format(file, meta, a) ==
    IF a.primary = FetchFailed \/ a.meta = FetchFailed
    THEN [data |-> write_file(EmptyObj, WriteOk), meta |-> meta]
    ELSE [data |-> File(a.primary), meta |-> write_file(a.meta, WriteOk)]

\* for format_name in FORMATS: try: ... except Exception: ...
RECURSIVE build_download(_, _, _)
build_download(fs, dirs, o) ==
    IF fs = <<>> THEN dirs
    ELSE build_download(
             Tail(fs),
             [data |-> [dirs.data EXCEPT ![Head(fs)] =
                           build_format(dirs.data[Head(fs)], dirs.meta[Head(fs)],
                                        o[Head(fs)]).data],
              meta |-> [dirs.meta EXCEPT ![Head(fs)] =
                           build_format(dirs.data[Head(fs)], dirs.meta[Head(fs)],
                                        o[Head(fs)]).meta]],
             o)

\* what the remote source answers to the command
BuildAnswers ==
    {NoAnswer} \cup {Answer(p, FetchFailed, m) : p \in {PrimaryA, PrimaryB},
                                                 m \in {FetchFailed, MetaA}}

\* data_dir and metadata_dir stand for pokemon_randbats/data and
\* pokemon_randbats/metadata of the source tree
InitBuild == InitSync

\* python setup.py download_data: run() goes through the loop once
DownloadData ==
    /\ ev.op = "none"
    /\ \E o \in [Registry -> BuildAnswers] :
        LET dirs == build_download(FORMATS, [data |-> data_dir, meta |-> metadata_dir], o)
        IN  /\ data_dir' = dirs.data
            /\ metadata_dir' = dirs.meta
            /\ ev' = [EvNone EXCEPT
                      !.op = "build", !.req = Registry, !.outcome = o,
                      !.prior = [data |-> data_dir, meta |-> metadata_dir]]
    /\ UNCHANGED <<cache, bundled, threadVars, last_update, attempted, now, instanceVars>>

NextBuild == DownloadData

SpecBuild == InitBuild /\ [][NextBuild]_vars

\* C29: in the download command of the build, a failure of the dataset fetch or
\* of the metadata fetch after it never leaves the format with less data than
\* before: a populated dataset file that existed before stays, and a dataset
\* downloaded in the same iteration is not replaced by an empty dataset.
C29_BuildKeepsData ==
    ev.op = "build" =>
        \A f \in Registry :
            /\ ev.outcome[f].primary = FetchFailed
               /\ ev.prior.data[f].kind = "json"
               /\ ev.prior.data[f].val.t = "object"
               => data_dir[f] = ev.prior.data[f]
            /\ ev.outcome[f].primary # FetchFailed /\ ev.outcome[f].meta = FetchFailed
               => data_dir[f] = File(ev.outcome[f].primary)

\* ---------------------------------------------------------------------------
\* The last_update file and the refresh at construction
\* ---------------------------------------------------------------------------

\* C31: a last_update file that exists but holds no timestamp counts as absent:
\* a constructor with auto_update on then finds the cache stale and calls the
\* refresh.
C31_BadStampIsAbsent ==
    ev.op = "init" /\ ev.auto /\ ev.stamp.kind = "garbage" => ev.synced

\* the part of C31 the constructor keeps: an absent last_update file is stale
C31_AbsentStampIsStale ==
    ev.op = "init" /\ ev.auto /\ ev.stamp.kind = "absent" => ev.synced

\* C33: with auto_update off the constructor calls no refresh and writes
\* nothing: the cache files and the last_update file are after the construction
\* what they were before it, whatever their age or content.
C33_AutoOffWritesNothing ==
    [][ev'.op = "init" /\ ~ev'.auto =>
          /\ ~ev'.synced
          /\ cache' = cache
          /\ last_update' = last_update
          /\ attempted' = attempted]_vars

C33_Witness ==
    /\ ev.op = "init"
    /\ ~ev.auto
    /\ ~ev.synced
    /\ last_update = Time(0 - StartAge)
    /\ cache["gen9randombattle"] = Corrupt
    /\ attempted = NoTime

\* C32: a refresh that fails is not propagated: when update_formats raises,
\* update returns with every in-memory dataset, the loaded formats and the
\* last_update file as they were, and a constructor with auto_update on still
\* ends with every configured format loaded.
C32_FailureContained ==
    [][ev'.raised =>
          /\ phase' = "ready"
          /\ last_update' = last_update
          /\ ev'.updated = {}
          /\ ev'.op = "update" => _data' = _data /\ _loaded_formats' = _loaded_formats
          /\ ev'.op = "init" =>
                 /\ Range(formats') \subseteq _loaded_formats'
                 /\ _data' = _load_data(formats', <<>>, cache)]_vars

C32_Witness ==
    /\ ev.op = "update"
    /\ ev.raised
    /\ last_update = Time(0 - StartAge)
    /\ "gen9randombattle" \in _loaded_formats
    /\ _data["gen9randombattle"] = DocRaw

\* a constructor whose refresh raised
C32_InitReached ==
    /\ ev.op = "init" /\ ev.auto /\ ev.raised
    /\ _loaded_formats = Registry

\* ---------------------------------------------------------------------------
\* The instance and the files
\* ---------------------------------------------------------------------------

\* C34: after the constructor and after every update, the in-memory dataset of
\* every loaded format is what the load precedence yields from the files as
\* they are: the cache file when it parses, else the bundled file when it
\* parses, else the empty dataset.
C34_CacheCoherence ==
    ev.op \in {"init", "update"} =>
        \A f \in _loaded_formats :
            _data[f] = IF cache[f].kind = "json" THEN cache[f].val
                       ELSE IF bundled[f].kind = "json" THEN bundled[f].val
                       ELSE EmptyObj

\* the part of C34 the instance keeps: every loaded dataset is what
\* _load_format would store for the files as they are
C34_CoherentWithLoad ==
    phase = "ready" =>
        \A f \in _loaded_formats : _data[f] = LoadDoc(cache[f], bundled[f])

\* C35: loaded is terminal: no operation on an instance takes a format out of
\* the loaded formats or drops its dataset, and _load_data called again skips
\* the formats already loaded, changing no dataset.
C35_LoadedIsTerminal ==
    [][ev'.op # "init" =>
          /\ _loaded_formats \subseteq _loaded_formats'
          /\ DOMAIN _data \subseteq DOMAIN _data'
          /\ ev'.op = "load_data" =>
                 _data' = _data /\ _loaded_formats' = _loaded_formats]_vars

\* _load_data repeated on an instance that has loaded a format outside its
\* configured formats
C35_Witness ==
    /\ ev.op = "load_data"
    /\ Range(formats) # _loaded_formats
    /\ Range(formats) \subseteq _loaded_formats
    /\ \E f \in _loaded_formats : _data[f] # EmptyObj

\* ---------------------------------------------------------------------------
\* Lookup with and without the format
\* ---------------------------------------------------------------------------

\* C39: the lookup with the format omitted agrees with the lookup in a named
\* format on what is found: when get(name, F) returns a record for one of
\* gen9randombattle, gen8randombattle, gen7randombattle, an empty record
\* included, get(name) returns a record too, that of the first such F.
C39_DetectAgreesWithGet ==
    ev.op = "get" /\ ev.fmt = None =>
        LET found == {i \in DOMAIN recent_formats :
                         get_pokemon(_data, _loaded_formats, ev.name,
                                     recent_formats[i], None).kind = "record"}
        IN  found # {} =>
                /\ ev.ret.kind = "record"
                /\ \E i \in found :
                       /\ \A j \in found : i <= j
                       /\ ev.ret = get_pokemon(_data, _loaded_formats, ev.name,
                                               recent_formats[i], None)

\* the part of C39 the lookup keeps: records that are not empty
C39_AgreesOnPopulatedRecords ==
    ev.op = "get" /\ ev.fmt = None =>
        LET found == {i \in DOMAIN recent_formats :
                         get_pokemon(_data, _loaded_formats, ev.name,
                                     recent_formats[i], None).kind = "record"}
        IN  /\ found # {}
            /\ \A i \in found :
                   Truthy(get_pokemon(_data, _loaded_formats, ev.name,
                                      recent_formats[i], None))
            => ev.ret.kind = "record"

\* ---------------------------------------------------------------------------
\* The formats argument: omitted, empty, or a list
\* ---------------------------------------------------------------------------

CallArgs == {Omitted, <<>>, <<"gen9randombattle">>}

InitArgs == InitClock

NextArgs ==
    \/ \E arg \in CallArgs, auto \in BOOLEAN : Construct(arg, auto)
    \/ \E arg \in CallArgs : Update(arg)

SpecArgs == InitArgs /\ [][NextArgs]_vars

\* C40: an empty format list means no formats: the constructor called with
\* formats=[] loads nothing and update([]) asks the updater for nothing and
\* reloads nothing; only an omitted argument selects the default, the
\* registered formats for the constructor and the loaded formats for update.
C40_EmptyListIsEmpty ==
    /\ ev.op = "init" /\ ev.arg = <<>> => formats = <<>> /\ _loaded_formats = {}
    /\ ev.op = "update" /\ ev.arg = <<>> => ev.req = {} /\ ev.updated = {}
    /\ ev.op = "init" /\ ev.arg = Omitted => formats = FORMATS
    /\ ev.op = "update" /\ ev.arg = Omitted => ev.req = _loaded_formats

\* the part of C40 the code keeps: the omitted argument and a list of formats
C40_OmittedSelectsDefault ==
    /\ ev.op = "init" /\ ev.arg = Omitted =>
           formats = FORMATS /\ _loaded_formats = Registry
    /\ ev.op = "update" /\ ev.arg = Omitted => ev.req = _loaded_formats
    /\ ev.op = "init" /\ ~NoFormats(ev.arg) =>
           formats = ev.arg /\ _loaded_formats = Range(ev.arg)
    /\ ev.op = "update" /\ ~NoFormats(ev.arg) => ev.req = Range(ev.arg)

\* ---------------------------------------------------------------------------
\* formats.py: the quick-access functions and the global instance, called from
\* the threads of one process
\* ---------------------------------------------------------------------------

\* the quick-access functions that go through _get_global_data
QuickOps == {"get_pokemon", "list_pokemon", "update_data", "get_format_info"}

InitGlobal ==
    /\ NoThreads
    /\ cache \in [FormatTokens -> {Absent, File(DocRaw)}]
    /\ cache[UnknownFormat] = Absent
    /\ bundled = [f \in FormatTokens |-> Absent]
    /\ last_update \in {NoTime, BadTime, Time(0 - StartAge)}
    /\ attempted = NoTime
    /\ now = 0
    /\ phase = "none"
    /\ formats = <<>>
    /\ _data = <<>>
    /\ _loaded_formats = {}
    /\ data_dir = [f \in Registry |-> Absent]
    /\ metadata_dir = [f \in Registry |-> Absent]
    /\ ev = EvNone

\* a quick-access function is called and _get_global_data reads the global:
\* if _global_data is None: ... else return _global_data
QuickCall(t, op) ==
    /\ pc[t].at = "idle"
    /\ pc' = [pc EXCEPT ![t] =
                 IF _global_data = 0
                 THEN [Idle EXCEPT !.at = "construct", !.op = op]
                 ELSE [Idle EXCEPT !.at = "call", !.op = op, !.data = _global_data]]
    /\ UNCHANGED <<cache, bundled, last_update, attempted, now, instanceVars,
                   scriptVars, ev, _global_data, constructed, installed>>

\* _global_data = RandBatsData(); return _global_data
\* the instance variables of the model are those of the instance made last
ConstructGlobal(t) ==
    /\ pc[t].at = "construct"
    /\ __init__(Omitted, TRUE)
    /\ constructed' = constructed + 1
    /\ _global_data' = constructed + 1
    /\ pc' = [pc EXCEPT ![t] = [@ EXCEPT !.at = "call", !.data = constructed + 1]]
    /\ UNCHANGED <<bundled, now, scriptVars, installed>>

\* data.<method>(...) on the instance _get_global_data returned; update_data
\* calls data.update(None), the other three read
QuickReturn(t) ==
    /\ pc[t].at = "call"
    /\ LET e == [EvNone EXCEPT !.op = "quick", !.type = pc[t].op]
       IN  IF pc[t].op = "update_data"
           THEN \E r \in UpdaterRuns(Registry) :
                    IF pc[t].data = _global_data
                    THEN update(_data, Registry, r.o, [e EXCEPT !.raised = r.raised])
                    ELSE /\ cache' = update_formats(cache, Registry, r.o)
                         /\ last_update' = IF r.raised THEN last_update ELSE Time(now)
                         /\ attempted' = IF r.raised THEN attempted ELSE Time(now)
                         /\ ev' = [e EXCEPT !.raised = r.raised, !.synced = TRUE,
                                            !.req = Registry, !.outcome = r.o]
                         /\ UNCHANGED _data
           ELSE /\ ev' = e
                /\ UNCHANGED <<cache, last_update, attempted, _data>>
    /\ pc' = [pc EXCEPT ![t] = Idle]
    /\ UNCHANGED <<bundled, now, phase, formats, _loaded_formats, scriptVars,
                   _global_data, constructed, installed>>

NextGlobal ==
    \/ \E t \in Threads, op \in QuickOps : QuickCall(t, op)
    \/ \E t \in Threads : ConstructGlobal(t)
    \/ \E t \in Threads : QuickReturn(t)

SpecGlobal == InitGlobal /\ [][NextGlobal]_vars

\* C38: the default instance behind the quick-access functions is constructed
\* once: over every interleaving of quick-access calls at most one RandBatsData
\* is constructed and every call uses that instance.
C38_OneGlobalInstance ==
    /\ constructed <= 1
    /\ \A t \in Threads : pc[t].at = "call" => pc[t].data = _global_data

\* the part of C38 that holds: a call that finds the global set constructs
\* nothing and uses the instance the global holds at that moment
C38_NoConstructionOnceSet ==
    [][_global_data # 0 /\ (\A t \in Threads : pc[t].at # "construct")
          => constructed' = constructed /\ _global_data' = _global_data]_vars

\* ---------------------------------------------------------------------------
\* One instance, called from the threads of one process
\* ---------------------------------------------------------------------------

\* the same with the dictionary of the format emptied and filled in place
LoadStages_InPlace(old, new) ==
    IF new.t = "object" /\ Len(new.kv) > 1
    THEN <<EmptyObj, Obj(SubSeq(new.kv, 1, 1)), new>>
    ELSE <<EmptyObj, new>>

\* the values self._data[format_name] takes while _load_format runs: json.load
\* builds the new dictionary, one assignment binds it (lines 74, 83, 89, 95)
LoadStages(old, new) == <<new>>

\* the orders in which the list update_formats returns can name the formats S
Orders(S) ==
    {q \in UNION {[1..n -> S] : n \in {Cardinality(S)}} :
        \A i, j \in DOMAIN q : q[i] = q[j] => i = j}

\* the instance the threads share: RandBatsData(formats=ThreadFormats,
\* auto_update=False), constructed before the threads start
ThreadFormats == <<"gen9randombattle">>
ThreadArgs == {Omitted, ThreadFormats}
ThreadNames == {PIKACHU_, mrmime}

InitThreads ==
    /\ cache \in [FormatTokens -> {Absent, File(DocRaw), File(DocCollide)}]
    /\ \A f \in FormatTokens \ Range(ThreadFormats) : cache[f] = Absent
    /\ bundled = [f \in FormatTokens |-> Absent]
    /\ last_update \in {NoTime, Time(0)}
    /\ attempted = last_update
    /\ now = 0
    /\ phase = "ready"
    /\ formats = ThreadFormats
    /\ _data = _load_data(ThreadFormats, <<>>, cache)
    /\ _loaded_formats = Range(ThreadFormats)
    /\ data_dir = [f \in Registry |-> Absent]
    /\ metadata_dir = [f \in Registry |-> Absent]
    /\ ev = EvNone
    /\ pc = [t \in Threads |-> Idle]
    /\ _global_data = 0
    /\ constructed = 1
    /\ installed = [f \in Registry |-> {LoadDoc(cache[f], bundled[f])}]

\* get_pokemon(name, f) up to line 134: a format that is not loaded returns
\* None, else the name is normalized
GetCall(t, name, f) ==
    /\ pc[t].at = "idle"
    /\ IF f \notin DOMAIN _data
       THEN /\ ev' = [EvNone EXCEPT !.op = "get", !.fmt = f, !.name = name]
            /\ UNCHANGED pc
       ELSE /\ pc' = [pc EXCEPT ![t] = [Idle EXCEPT !.at = "bind", !.name = name,
                                                     !.fmt = f]]
            /\ UNCHANGED ev
    /\ UNCHANGED <<cache, bundled, last_update, attempted, now, instanceVars,
                   scriptVars, _global_data, constructed, installed>>

\* format_data = self._data[format_name]
GetBind(t) ==
    /\ pc[t].at = "bind"
    /\ pc' = [pc EXCEPT ![t] = [@ EXCEPT !.at = "search",
                                         !.format_data = _data[pc[t].fmt]]]
    /\ UNCHANGED <<cache, bundled, last_update, attempted, now, instanceVars,
                   scriptVars, ev, _global_data, constructed, installed>>

\* lines 138-146: the search in format_data, and the return
GetReturn(t) ==
    /\ pc[t].at = "search"
    /\ ev' = [EvNone EXCEPT
                 !.op = "get", !.fmt = pc[t].fmt, !.name = pc[t].name,
                 !.doc = pc[t].format_data,
                 !.ret = get_in_format(pc[t].fmt :> pc[t].format_data,
                                       pc[t].name, pc[t].fmt)]
    /\ pc' = [pc EXCEPT ![t] = Idle]
    /\ UNCHANGED <<cache, bundled, last_update, attempted, now, instanceVars,
                   scriptVars, _global_data, constructed, installed>>

\* update(arg) up to the call of self.updater.update_formats
UpdateCall(t, arg) ==
    /\ pc[t].at = "idle"
    /\ pc' = [pc EXCEPT ![t] = [Idle EXCEPT !.at = "fetching",
                                            !.fs = formats_to_update(arg, _data)]]
    /\ UNCHANGED <<cache, bundled, last_update, attempted, now, instanceVars,
                   scriptVars, ev, _global_data, constructed, installed>>

\* update_formats returns the formats it has written, or raises
UpdaterReturn(t) ==
    /\ pc[t].at = "fetching"
    /\ \E r \in UpdaterRuns(pc[t].fs) :
           /\ cache' = update_formats(cache, pc[t].fs, r.o)
           /\ IF r.raised
              THEN /\ pc' = [pc EXCEPT ![t] = Idle]
                   /\ ev' = [EvNone EXCEPT !.op = "update", !.synced = TRUE,
                                 !.raised = TRUE, !.req = pc[t].fs, !.outcome = r.o]
              ELSE /\ \E q \in Orders(updated_formats(pc[t].fs, r.o) \cap _loaded_formats) :
                          pc' = [pc EXCEPT ![t] = [@ EXCEPT !.at = "reloading",
                                                            !.pending = q]]
                   /\ UNCHANGED ev
    /\ UNCHANGED <<bundled, last_update, attempted, now, instanceVars, scriptVars,
                   _global_data, constructed, installed>>

\* self._load_format(format_name) for the next updated format: one step for
\* each value the format's entry of self._data takes
ReloadStep(t) ==
    /\ pc[t].at = "reloading"
    /\ pc[t].pending # <<>>
    /\ LET f == Head(pc[t].pending)
           new == LoadDoc(cache[f], bundled[f])
           stages == LoadStages(_data[f], new)
           k == IF _data[f] \in Range(stages) /\ _data[f] # new
                THEN 1 + CHOOSE i \in DOMAIN stages : stages[i] = _data[f]
                ELSE 1
       IN  /\ _data' = [_data EXCEPT ![f] = stages[k]]
           /\ IF k = Len(stages)
              THEN /\ installed' = [installed EXCEPT ![f] = @ \cup {new}]
                   /\ pc' = [pc EXCEPT ![t] = [@ EXCEPT !.pending = Tail(@)]]
              ELSE UNCHANGED <<installed, pc>>
    /\ UNCHANGED <<cache, bundled, last_update, attempted, now, phase, formats,
                   _loaded_formats, scriptVars, ev, _global_data, constructed>>

\* the write of last_update, and the return of update
UpdateStamp(t) ==
    /\ pc[t].at = "reloading"
    /\ pc[t].pending = <<>>
    /\ last_update' = Time(now)
    /\ attempted' = Time(now)
    /\ ev' = [EvNone EXCEPT !.op = "update", !.synced = TRUE, !.req = pc[t].fs]
    /\ pc' = [pc EXCEPT ![t] = Idle]
    /\ UNCHANGED <<cache, bundled, now, instanceVars, scriptVars, _global_data,
                   constructed, installed>>

NextThreads ==
    \/ \E t \in Threads, name \in ThreadNames, f \in Range(ThreadFormats) \cup {UnknownFormat} :
           GetCall(t, name, f)
    \/ \E t \in Threads : GetBind(t)
    \/ \E t \in Threads : GetReturn(t)
    \/ \E t \in Threads, arg \in ThreadArgs : UpdateCall(t, arg)
    \/ \E t \in Threads : UpdaterReturn(t)
    \/ \E t \in Threads : ReloadStep(t)
    \/ \E t \in Threads : UpdateStamp(t)

SpecThreads == InitThreads /\ [][NextThreads]_vars

\* C36: a get_pokemon(name, f) that runs while another thread reloads f
\* searches, and answers from, one whole dataset: the one the format had
\* before the reload or the one the reload loaded, never an emptied or
\* half-filled one
C36_WholeDatasetSeen ==
    /\ \A t \in Threads :
           pc[t].at = "search" => pc[t].format_data \in installed[pc[t].fmt]
    /\ ev.op = "get" /\ ev.fmt \in DOMAIN _data
           => /\ ev.doc \in installed[ev.fmt]
              /\ ev.ret = get_in_format(ev.fmt :> ev.doc, ev.name, ev.fmt)

\* a get has bound the dataset of its format, and before it has searched it
\* another thread's update has reloaded the format with different content
C36_Witness ==
    \E t, u \in Threads :
        /\ pc[t].at = "search"
        /\ pc[u].at = "reloading"
        /\ pc[t].fmt \in pc[u].fs
        /\ pc[t].format_data # _data[pc[t].fmt]
        /\ Cardinality(installed[pc[t].fmt]) > 1

\* C37: two updates of one format that overlap collapse into one fetch: at
\* no time are two calls of update_formats for the same format in flight
C37_SingleFlight ==
    \A f \in Registry :
        Cardinality({t \in Threads : pc[t].at = "fetching" /\ f \in pc[t].fs}) <= 1


====
